---- MODULE Spec2Model ----
(***************************************************************************)
(* Hospital feedback analytics: the alert engine (backend/alert_system.py),*)
(* the sentiment fusion engine (sentiment_analyzer.py), the trend and      *)
(* cluster analyzer and the operations dashboard (backend/dashboard.py),   *)
(* the doctor analyzer (backend/doctor_analyzer.py), the facility quality  *)
(* monitor (facility_monitor.py) and the feedback log of the application   *)
(* (app.py).                                                               *)
(*                                                                         *)
(* Conventions.  Python None is the string "None" for enum-like values,    *)
(* NoTime for a missing timestamp and the empty sequence for a missing     *)
(* return value.  Wall-clock time is the integer `now`; it advances only   *)
(* by Tick, between operations, so two operations can read the same value  *)
(* of datetime.now().                                                      *)
(* Message strings and the details dictionary of an alert are formatted    *)
(* copies of the inputs and are never read back by the engine; they are    *)
(* not part of the state.                                                  *)
(***************************************************************************)
EXTENDS Integers, Sequences, FiniteSets, TLC

VARIABLES alerts, alert_handlers, now, ret, text, analysis, transformer,
          reviews, duty_logs, complaints, sentiment_scores,
          food_reviews, room_reviews, report, reader, writer,
          feedback_log, reprocess

vars == <<alerts, alert_handlers, now, ret, text, analysis, transformer,
          reviews, duty_logs, complaints, sentiment_scores,
          food_reviews, room_reviews, report, reader, writer,
          feedback_log, reprocess>>

alertVars == <<alerts, alert_handlers, now, ret>>
sentimentVars == <<text, analysis, transformer>>

\* The ledgers of the analytics components, the value the last analytics
\* operation returned, and the progress of a cluster_issues call that runs
\* on a thread of its own.
doctorLedgers == <<duty_logs, complaints, sentiment_scores>>
facilityLedgers == <<food_reviews, room_reviews>>
\* The feedback log file of the application and the progress of the
\* reprocess_pending_feedback_once calls.
feedbackVars == <<feedback_log, reprocess>>
analyticsVars == <<reviews, doctorLedgers, facilityLedgers, report, reader, writer,
                  feedbackVars>>

(***************************************************************************)
(* Bounds of the model.                                                    *)
(***************************************************************************)
MaxAlerts == 2
MaxTime == 1
MaxHandlers == 2
Grid == 6
MaxReviews == 2
MaxDays == 1
MaxShifts == 2
MaxFacilityReviews == 2
MaxWaitReviews == 6
MaxClusterReviews == 3
MaxEntries == 2
MaxThreadReviews == 4
MaxRiskShifts == 4
MaxSamples == 2
MaxComplaints == 21
MaxSubmissions == 2

(***************************************************************************)
(* Enumerations and small input sets.                                      *)
(***************************************************************************)
AlertSeverity == {"CRITICAL", "HIGH", "MEDIUM", "LOW"}

AlertType == {"SENTIMENT_CRITICAL", "DOCTOR_BURNOUT", "COMPLAINT_FILED",
              "FOOD_QUALITY", "ROOM_QUALITY", "ISSUE_CLUSTER", "SYSTEM_ERROR"}

Users == {"u1", "u2"}

Handlers == {"email_alert_handler", "log_alert_handler"}

NoTime == -1

NoneStr == "None"

\* Levels and severities the callers pass as strings to the checks.
LevelInputs == {"CRITICAL", "HIGH", "MODERATE", "MEDIUM", "LOW", "NO_DATA"}

\* Quality scores on the 1..5 scale, in tenths.
QualityScores == {10, 19, 20, 21, 30, 50}

\* Sentiment scores in thousandths.
SentimentScores == {-1000, -701, -700, -699, 0, 500}

\* Cluster frequencies.
Frequencies == {0, 4, 5, 6}

(***************************************************************************)
(* threshold_config                                                        *)
(***************************************************************************)
sentiment_critical == -700
food_quality_critical == 20
room_quality_critical == 20
issue_cluster_critical == 5

(***************************************************************************)
(* class Alert                                                             *)
(***************************************************************************)
\* Alert.__init__ at clock value t: the id and created_at are both read
\* from the clock.
Alert(alert_type, severity, t) ==
    [alert_id        |-> t,
     alert_type      |-> alert_type,
     severity        |-> severity,
     created_at      |-> t,
     acknowledged    |-> FALSE,
     acknowledged_at |-> NoTime,
     acknowledged_by |-> NoneStr]

\* Alert.to_dict: the same fields, enums by value.
to_dict(a) == a

AcknowledgeToggles(a, user_id, t) ==
    [a EXCEPT !.acknowledged    = ~a.acknowledged,
              !.acknowledged_at = t,
              !.acknowledged_by = user_id]

\* Alert.acknowledge
acknowledge(a, user_id, t) ==
    [a EXCEPT !.acknowledged    = TRUE,
              !.acknowledged_at = t,
              !.acknowledged_by = user_id]

(***************************************************************************)
(* Return value of the last operation, one shape for all operations:       *)
(* op the operation, ok its boolean result, val the alerts it returned     *)
(* (empty for None), invoked the handlers it called in call order, failed  *)
(* the positions in invoked whose call raised.                             *)
(***************************************************************************)
Ret(op, ok, val, invoked, failed) ==
    [op |-> op, ok |-> ok, val |-> val, invoked |-> invoked, failed |-> failed]

NoRet == Ret("none", FALSE, <<>>, <<>>, {})

(***************************************************************************)
(* AlertManager.create_alert                                               *)
(***************************************************************************)
RECURSIVE RunUntilFailure(_, _, _)
RunUntilFailure(hs, raises, i) ==
    IF i > Len(hs) THEN <<>>
    ELSE IF i \in raises THEN <<hs[i]>>
    ELSE <<hs[i]>> \o RunUntilFailure(hs, raises, i + 1)

\* The for loop over the handlers of the type: each call sits in its own
\* try/except Exception, so the loop goes on after a call that raises.
\* hs: the registered handlers; raises: the positions whose call raises.
RECURSIVE RunHandlers(_, _, _)
RunHandlers(hs, raises, i) ==
    IF i > Len(hs) THEN <<>>
    ELSE <<hs[i]>> \o RunHandlers(hs, raises, i + 1)

HandlersFor(alert_type) ==
    IF alert_type \in DOMAIN alert_handlers THEN alert_handlers[alert_type] ELSE <<>>

\* create_alert(alert_type, severity, ...) with the handler calls at the
\* positions in raises raising an Exception.  op names the public operation
\* that the caller invoked (create_alert itself or one of the checks).
CreateAlertAs(op, alert_type, severity, raises) ==
    LET alert   == Alert(alert_type, severity, now)
        invoked == RunHandlers(HandlersFor(alert_type), raises, 1)
    IN  /\ Len(alerts) < MaxAlerts
        /\ raises \subseteq 1..Len(HandlersFor(alert_type))
        /\ alerts' = Append(alerts, alert)
        /\ ret' = Ret(op, TRUE, <<to_dict(alert)>>, invoked, raises)
        /\ UNCHANGED <<alert_handlers, now>>

\* A check whose condition is false: returns None, nothing else happens.
ReturnNone(op) ==
    /\ ret' = Ret(op, FALSE, <<>>, <<>>, {})
    /\ UNCHANGED <<alerts, alert_handlers, now>>

RaiseSets == SUBSET (1..MaxHandlers)

create_alert(alert_type, severity) ==
    /\ \E raises \in RaiseSets :
          CreateAlertAs("create_alert", alert_type, severity, raises)
    /\ UNCHANGED <<sentimentVars, analyticsVars>>

(***************************************************************************)
(* AlertManager.register_handler                                           *)
(***************************************************************************)
register_handler(alert_type, handler) ==
    /\ Len(HandlersFor(alert_type)) < MaxHandlers
    /\ alert_handlers' =
          [t \in DOMAIN alert_handlers \cup {alert_type} |->
              IF t = alert_type THEN Append(HandlersFor(alert_type), handler)
              ELSE alert_handlers[t]]
    /\ ret' = Ret("register_handler", FALSE, <<>>, <<>>, {})
    /\ UNCHANGED <<alerts, now>>
    /\ UNCHANGED <<sentimentVars, analyticsVars>>

(***************************************************************************)
(* The threshold checks                                                    *)
(***************************************************************************)
\* A check: creates the alert when severity is one, returns None otherwise.
Check(op, alert_type, severity) ==
    IF severity = NoneStr
       THEN ReturnNone(op)
       ELSE \E raises \in RaiseSets : CreateAlertAs(op, alert_type, severity, raises)

\* check_sentiment_alert: sentiment_score < threshold_config['sentiment_critical']
SentimentAlertSeverity(sentiment_score) ==
    IF sentiment_score < sentiment_critical THEN "HIGH" ELSE NoneStr

check_sentiment_alert(sentiment_score) ==
    /\ Check("check_sentiment_alert", "SENTIMENT_CRITICAL",
       SentimentAlertSeverity(sentiment_score))
    /\ UNCHANGED <<sentimentVars, analyticsVars>>

BurnoutAlertSeverityAlwaysCritical(burnout_level) ==
    IF burnout_level \in {"CRITICAL", "HIGH"} THEN "CRITICAL" ELSE NoneStr

\* check_burnout_alert: decided by burnout_level alone; burnout_score is
\* only copied into the details.
BurnoutAlertSeverity(burnout_level) ==
    IF burnout_level = "CRITICAL" THEN "CRITICAL"
    ELSE IF burnout_level = "HIGH" THEN "HIGH"
    ELSE NoneStr

check_burnout_alert(burnout_level) ==
    /\ Check("check_burnout_alert", "DOCTOR_BURNOUT", BurnoutAlertSeverity(burnout_level))
    /\ UNCHANGED <<sentimentVars, analyticsVars>>

\* check_complaint_alert: decided by the complaint's severity string.
ComplaintAlertSeverity(severity) ==
    IF severity = "CRITICAL" THEN "CRITICAL"
    ELSE IF severity = "HIGH" THEN "HIGH"
    ELSE NoneStr

check_complaint_alert(severity) ==
    /\ Check("check_complaint_alert", "COMPLAINT_FILED", ComplaintAlertSeverity(severity))
    /\ UNCHANGED <<sentimentVars, analyticsVars>>

\* check_food_quality_alert: quality_score < threshold_config['food_quality_critical']
FoodAlertSeverity(quality_score) ==
    IF quality_score < food_quality_critical THEN "HIGH" ELSE NoneStr

check_food_quality_alert(quality_score) ==
    /\ Check("check_food_quality_alert", "FOOD_QUALITY", FoodAlertSeverity(quality_score))
    /\ UNCHANGED <<sentimentVars, analyticsVars>>

\* check_room_quality_alert: cleanliness_score < threshold_config['room_quality_critical']
RoomAlertSeverity(cleanliness_score) ==
    IF cleanliness_score < room_quality_critical THEN "HIGH" ELSE NoneStr

check_room_quality_alert(cleanliness_score) ==
    /\ Check("check_room_quality_alert", "ROOM_QUALITY", RoomAlertSeverity(cleanliness_score))
    /\ UNCHANGED <<sentimentVars, analyticsVars>>

\* check_issue_cluster_alert: cluster_data.get('frequency', 0) >= threshold
ClusterAlertSeverity(frequency) ==
    IF frequency >= issue_cluster_critical THEN "MEDIUM" ELSE NoneStr

check_issue_cluster_alert(frequency) ==
    /\ Check("check_issue_cluster_alert", "ISSUE_CLUSTER", ClusterAlertSeverity(frequency))
    /\ UNCHANGED <<sentimentVars, analyticsVars>>

(***************************************************************************)
(* AlertManager.get_active_alerts                                          *)
(***************************************************************************)
\* The sort key of get_active_alerts.
SeverityRank(a) ==
    CASE a.severity = "CRITICAL" -> 0
      [] a.severity = "HIGH"     -> 1
      [] a.severity = "MEDIUM"   -> 2
      [] a.severity = "LOW"      -> 3

\* sorted(seq, key=SeverityRank, reverse=reverse): a stable sort; with
\* reverse the order of the keys is descending and elements of equal key
\* keep their original order.
ComesBefore(x, y, reverse) ==
    IF reverse THEN SeverityRank(x) > SeverityRank(y)
    ELSE SeverityRank(x) < SeverityRank(y)

RECURSIVE InsertSorted(_, _, _)
InsertSorted(x, s, reverse) ==
    IF s = <<>> THEN <<x>>
    ELSE IF ComesBefore(x, Head(s), reverse) THEN <<x>> \o s
    ELSE <<Head(s)>> \o InsertSorted(x, Tail(s), reverse)

RECURSIVE Sorted(_, _)
Sorted(seq, reverse) ==
    IF seq = <<>> THEN <<>>
    ELSE InsertSorted(seq[Len(seq)], Sorted(SubSeq(seq, 1, Len(seq) - 1), reverse), reverse)

IsUnacknowledged(a) == ~a.acknowledged

MapToDict(seq) == [i \in 1..Len(seq) |-> to_dict(seq[i])]

ActiveAlertsUnfiltered(registry, severity) ==
    LET chosen == IF severity = NoneStr THEN registry
                  ELSE SelectSeq(registry, LAMBDA a : a.severity = severity)
    IN  MapToDict(Sorted(chosen, TRUE))

\* The value get_active_alerts(severity) returns for a registry.
ActiveAlerts(registry, severity) ==
    LET active == SelectSeq(registry, IsUnacknowledged)
        chosen == IF severity = NoneStr THEN active
                  ELSE SelectSeq(active, LAMBDA a : a.severity = severity)
    IN  MapToDict(Sorted(chosen, TRUE))

get_active_alerts(severity) ==
    /\ ret' = Ret("get_active_alerts", TRUE, ActiveAlerts(alerts, severity), <<>>, {})
    /\ UNCHANGED <<alerts, alert_handlers, now>>
    /\ UNCHANGED <<sentimentVars, analyticsVars>>

(***************************************************************************)
(* AlertManager.acknowledge_alert                                          *)
(***************************************************************************)
\* The first alert of the registry with the id, 0 when there is none.
MatchIndex(registry, alert_id) ==
    LET S == {i \in 1..Len(registry) : registry[i].alert_id = alert_id}
    IN  IF S = {} THEN 0 ELSE CHOOSE i \in S : \A j \in S : i <= j

LastIndexOrMatch(registry, alert_id) ==
    IF MatchIndex(registry, alert_id) = 0 THEN Len(registry)
    ELSE MatchIndex(registry, alert_id)

\* The alert the loop of acknowledge_alert stops at.
AcknowledgeTarget(registry, alert_id) == MatchIndex(registry, alert_id)

acknowledge_alert(alert_id, user_id) ==
    LET i == AcknowledgeTarget(alerts, alert_id)
    IN  /\ IF i = 0
              THEN /\ ret' = Ret("acknowledge_alert", FALSE, <<>>, <<>>, {})
                   /\ UNCHANGED alerts
              ELSE /\ alerts' = [alerts EXCEPT ![i] = acknowledge(@, user_id, now)]
                   /\ ret' = Ret("acknowledge_alert", TRUE, <<>>, <<>>, {})
        /\ UNCHANGED <<alert_handlers, now>>
        /\ UNCHANGED <<sentimentVars, analyticsVars>>

\* Ids a caller may pass: every id the clock can issue and one it cannot.
AlertIds == 0..(MaxTime + 1)

(***************************************************************************)
(* AlertManager.export_alerts_json                                         *)
(***************************************************************************)
\* The alerts written to the file: those created after now - hours.
\* written is whether open/json.dump succeeded; a failure is caught and
\* the method returns False.
export_alerts_json(hours, written) ==
    LET cutoff_time == now - hours
        recent == SelectSeq(alerts, LAMBDA a : a.created_at > cutoff_time)
    IN  /\ ret' = Ret("export_alerts_json", written,
                      IF written THEN MapToDict(recent) ELSE <<>>, <<>>, {})
        /\ UNCHANGED <<alerts, alert_handlers, now>>
        /\ UNCHANGED <<sentimentVars, analyticsVars>>

(***************************************************************************)
(* The clock                                                               *)
(***************************************************************************)
Tick ==
    /\ now < MaxTime
    /\ now' = now + 1
    /\ UNCHANGED <<alerts, alert_handlers, ret>>
    /\ UNCHANGED <<sentimentVars, analyticsVars>>

(***************************************************************************)
(* Initial state: the module-level alert_manager with the three            *)
(* registrations of email_alert_handler made at import.                    *)
(***************************************************************************)
InitAlerts ==
    /\ alerts = <<>>
    /\ alert_handlers = [t \in {"SENTIMENT_CRITICAL", "DOCTOR_BURNOUT", "COMPLAINT_FILED"}
                            |-> <<"email_alert_handler">>]
    /\ now = 0
    /\ ret = NoRet

(***************************************************************************)
(* SentimentAnalyzer (sentiment_analyzer.py)                               *)
(*                                                                         *)
(* Scores are fixed point.  The sub-signals (VADER compound, TextBlob      *)
(* polarity, the transformer's signed score) are in thousandths; the       *)
(* fused score, a sum of signals weighted in tenths, is exact in units of  *)
(* 1/10000.  The code computes in binary floating point, so the double it  *)
(* holds can sit just below or just above the exact sum: fp is the sign    *)
(* of that difference and decides the comparisons and the rounding         *)
(* whenever the exact value sits on a threshold or on a rounding tie.      *)
(***************************************************************************)
Abs(x) == IF x < 0 THEN -x ELSE x

\* The values a sub-signal takes in the model: Grid steps on each side of 0.
SignalValues ==
    {(k * 1000) \div Grid : k \in 0..Grid} \cup {-((k * 1000) \div Grid) : k \in 0..Grid}

\* The scores the classifier reports for its label, in [0, 1].
ClassifierScores == {(k * 1000) \div Grid : k \in 0..Grid}

FloatSigns == {-1, 0, 1}

\* round(x, 3) of a value in units of 1/10000, in thousandths.
Round3(x, fp) ==
    LET q == x \div 10
        r == x % 10
    IN  IF r < 5 THEN q
        ELSE IF r > 5 THEN q + 1
        ELSE IF fp > 0 THEN q + 1
        ELSE IF fp < 0 THEN q
        ELSE IF q % 2 = 0 THEN q ELSE q + 1

\* analyze_with_transformer: the signed score.  loaded: self.transformer is
\* not None; raised: the pipeline call raised; label, score: its answer.
TransformerScore(loaded, raised, label, score) ==
    IF ~loaded THEN 0
    ELSE IF raised THEN 0
    ELSE IF label = "positive" THEN score ELSE -score

FusedOverweighted(compound, polarity, tscore) ==
    compound * 5 + polarity * 3 + tscore * 3

\* overall_score before rounding, in units of 1/10000.
Fused(compound, polarity, tscore) ==
    compound * 4 + polarity * 3 + tscore * 3

\* overall_score > 0.3 and overall_score < -0.3 on the double.
ScoreAbove(x, fp) == x > 3000 \/ (x = 3000 /\ fp > 0)
ScoreBelow(x, fp) == x < -3000 \/ (x = -3000 /\ fp < 0)

SentimentLabelKeywordOnly(x, fp, neg_match, compound, polarity) ==
    IF ScoreAbove(x, fp) THEN "POSITIVE"
    ELSE IF ScoreBelow(x, fp) \/ neg_match THEN "NEGATIVE"
    ELSE "NEUTRAL"

SentimentLabelOverrideFirst(x, fp, neg_match, compound, polarity) ==
    IF ScoreBelow(x, fp) \/ (neg_match /\ (compound < 0 \/ polarity < 0)) THEN "NEGATIVE"
    ELSE IF ScoreAbove(x, fp) THEN "POSITIVE"
    ELSE "NEUTRAL"

\* The label decision.  neg_match: neg_count > 0, a negative keyword occurs
\* in the lowercased English text.
SentimentLabel(x, fp, neg_match, compound, polarity) ==
    IF ScoreAbove(x, fp) THEN "POSITIVE"
    ELSE IF ScoreBelow(x, fp) \/ (neg_match /\ (compound < 0 \/ polarity < 0))
        THEN "NEGATIVE"
    ELSE "NEUTRAL"

\* The result of comprehensive_analysis.  fused, fp and neg_match are the
\* locals overall_score (unrounded) and neg_count > 0, kept to state the
\* properties; the other fields are keys of the returned dictionary.
AnalysisResult(compound, polarity, tscore, neg_match, fp) ==
    LET x == Fused(compound, polarity, tscore)
    IN  [overall_score   |-> Round3(x, fp),
         sentiment_label |-> SentimentLabel(x, fp, neg_match, compound, polarity),
         confidence      |-> Round3(Abs(x), IF x < 0 THEN -fp ELSE fp),
         vader           |-> compound,
         textblob        |-> polarity,
         transformer     |-> tscore,
         fused           |-> x,
         fp              |-> fp,
         neg_match       |-> neg_match]

NoAnalysis ==
    [overall_score |-> 0, sentiment_label |-> "UNKNOWN", confidence |-> 0,
     vader |-> 0, textblob |-> 0, transformer |-> 0, fused |-> 0, fp |-> 0,
     neg_match |-> FALSE]

\* What the analysis reads off a text: the sub-signals the extractors
\* return for it (compound, polarity; raised, label, score of the pipeline
\* call), whether a negative keyword occurs in it, and fp.
Texts ==
    [compound : SignalValues, polarity : SignalValues, raised : BOOLEAN,
     label : {"positive", "negative"}, score : ClassifierScores,
     neg_match : BOOLEAN, fp : FloatSigns]

NoText ==
    [compound |-> 0, polarity |-> 0, raised |-> FALSE, label |-> "positive",
     score |-> 0, neg_match |-> FALSE, fp |-> 0]

\* The dictionary comprehensive_analysis returns for a text.
AnalysisOf(t) ==
    AnalysisResult(t.compound, t.polarity,
                   TransformerScore(transformer, t.raised, t.label, t.score),
                   t.neg_match, t.fp)

comprehensive_analysis ==
    /\ analysis' = AnalysisOf(text)
    /\ UNCHANGED <<text, transformer>>
    /\ UNCHANGED <<alertVars, analyticsVars>>

\* SentimentAnalyzer.__init__: the transformer pipeline loads or does not.
InitSentiment ==
    /\ text \in Texts
    /\ analysis = NoAnalysis
    /\ transformer \in BOOLEAN

(***************************************************************************)
(* The analytics components: SentimentTrendAnalyzer (backend/dashboard.py),*)
(* DoctorAnalyzer (backend/doctor_analyzer.py), FacilityQualityMonitor     *)
(* (facility_monitor.py) and the routes of app.py that drive them.         *)
(*                                                                         *)
(* For these components one tick of the clock is half a day, so that two   *)
(* timestamps of one calendar date can differ.  A ledger that is a         *)
(* defaultdict(list) is a function whose domain is the keys present.       *)
(* report is the value the last analytics operation returned; NoReport is  *)
(* None.  Fields of entries and reports that are formatted copies of the   *)
(* inputs (names, comments, messages, the emotions map) are left out.      *)
(***************************************************************************)
\* timedelta(days=n) in ticks.
Days(n) == 2 * n

\* timestamp.split('T')[0]: the calendar date of a timestamp.
DateOf(t) == t \div 2

NoReport == [kind |-> "None"]

\* len(d[k]) read with d.get(k, []).
Get(d, k) == IF k \in DOMAIN d THEN d[k] ELSE <<>>

PrependAt(d, k, x) ==
    [j \in DOMAIN d \cup {k} |-> IF j = k THEN <<x>> \o Get(d, k) ELSE d[j]]

\* d[k].append(x) on a defaultdict(list).
AppendAt(d, k, x) ==
    [j \in DOMAIN d \cup {k} |-> IF j = k THEN Append(Get(d, k), x) ELSE d[j]]

EmptyDict == [k \in {} |-> <<>>]

Count(seq, Test(_)) == Len(SelectSeq(seq, Test))

\* sorted(S) of a finite set of integers.
RECURSIVE SortedSeq(_)
SortedSeq(S) ==
    IF S = {} THEN <<>>
    ELSE LET m == CHOOSE x \in S : \A y \in S : x <= y
         IN  <<m>> \o SortedSeq(S \ {m})

\* The cluster_issues call of another thread: not started.
NoReader == [pc |-> "idle"]

\* The file_complaint call of another thread: not started.
NoWriter == [pc |-> "idle"]

\* Who calls reprocess_pending_feedback_once: the background loop and the
\* handler of /api/admin/reprocess-pending.
Callers == {"_reprocess_background_loop", "api_reprocess_pending"}

\* A reprocess_pending_feedback_once call that is not running.
NoReprocess == [pc |-> "idle", records |-> <<>>]

\* The components as constructed: every ledger empty.
InitAnalytics ==
    /\ reviews = <<>>
    /\ duty_logs = EmptyDict
    /\ complaints = EmptyDict
    /\ sentiment_scores = EmptyDict
    /\ food_reviews = EmptyDict
    /\ room_reviews = EmptyDict
    /\ report = NoReport
    /\ reader = NoReader
    /\ writer = NoWriter
    /\ feedback_log = <<>>
    /\ reprocess = [c \in Callers |-> NoReprocess]

\* The clock moves by a day.
ElapseDay ==
    /\ now + Days(1) <= Days(MaxDays)
    /\ now' = now + Days(1)
    /\ UNCHANGED <<alerts, alert_handlers, ret>>
    /\ UNCHANGED <<sentimentVars, analyticsVars>>

(***************************************************************************)
(* SentimentTrendAnalyzer.add_review_analysis                              *)
(***************************************************************************)
Categories == {"general", "food"}

\* review_data: the keys the analyzer reads back.
Review(review_id, sentiment_analysis, category, t) ==
    [review_id       |-> review_id,
     sentiment_score |-> sentiment_analysis.overall_score,
     sentiment_label |-> sentiment_analysis.sentiment_label,
     category        |-> category,
     keywords        |-> sentiment_analysis.keywords,
     timestamp       |-> t]

add_review_analysis(review_id, sentiment_analysis, category) ==
    /\ reviews' = Append(reviews, Review(review_id, sentiment_analysis, category, now))
    /\ report' = NoReport
    /\ ret' = Ret("add_review_analysis", FALSE, <<>>, <<>>, {})
    /\ UNCHANGED <<alerts, alert_handlers, now>>
    /\ UNCHANGED <<sentimentVars, doctorLedgers, facilityLedgers, reader, writer,
                   feedbackVars>>

(***************************************************************************)
(* SentimentTrendAnalyzer.get_sentiment_trends                             *)
(***************************************************************************)
TrendFilterIgnoresWindow(ledger, days, category, t) ==
    SelectSeq(ledger, LAMBDA r : category = NoneStr \/ r.category = category)

\* relevant_reviews at clock value t.
TrendFilter(ledger, days, category, t) ==
    SelectSeq(ledger, LAMBDA r :
        /\ r.timestamp > t - Days(days)
        /\ (category = NoneStr \/ r.category = category))

ScoresOf(seq) == [i \in 1..Len(seq) |-> seq[i].sentiment_score]

DayEntryOfWholePeriod(relevant, date) ==
    [date          |-> date,
     positive      |-> Count(relevant, LAMBDA r : r.sentiment_label = "POSITIVE"),
     negative      |-> Count(relevant, LAMBDA r : r.sentiment_label = "NEGATIVE"),
     neutral       |-> Count(relevant, LAMBDA r : r.sentiment_label = "NEUTRAL"),
     scores        |-> ScoresOf(relevant),
     total_reviews |-> Len(relevant)]

\* One entry of trend_data: the counters of daily_trends[date].  scores is
\* the list avg_score, whose rounded mean the code reports as average_score.
DayEntry(relevant, date) ==
    LET day      == SelectSeq(relevant, LAMBDA r : DateOf(r.timestamp) = date)
        positive == Count(day, LAMBDA r : r.sentiment_label = "POSITIVE")
        negative == Count(day, LAMBDA r : r.sentiment_label = "NEGATIVE")
        neutral  == Count(day, LAMBDA r : r.sentiment_label \notin {"POSITIVE", "NEGATIVE"})
    IN  [date          |-> date,
         positive      |-> positive,
         negative      |-> negative,
         neutral       |-> neutral,
         scores        |-> ScoresOf(day),
         total_reviews |-> positive + negative + neutral]

\* _calculate_distribution: the three counts the percentages are taken of.
Distribution(relevant) ==
    [positive |-> Count(relevant, LAMBDA r : r.sentiment_label = "POSITIVE"),
     negative |-> Count(relevant, LAMBDA r : r.sentiment_label = "NEGATIVE"),
     neutral  |-> Count(relevant, LAMBDA r : r.sentiment_label = "NEUTRAL"),
     total    |-> Len(relevant)]

\* The value get_sentiment_trends(days, category) returns at clock value t.
TrendReport(ledger, days, category, t) ==
    LET relevant == TrendFilter(ledger, days, category, t)
        dates    == SortedSeq({DateOf(relevant[i].timestamp) : i \in 1..Len(relevant)})
    IN  IF relevant = <<>>
           THEN [kind          |-> "trends",
                 period_days   |-> days,
                 category      |-> category,
                 total_reviews |-> 0,
                 trend_data    |-> <<>>]
           ELSE [kind          |-> "trends",
                 period_days   |-> days,
                 category      |-> category,
                 total_reviews |-> Len(relevant),
                 trend_data    |-> [i \in 1..Len(dates) |-> DayEntry(relevant, dates[i])],
                 scores        |-> ScoresOf(relevant),
                 sentiment_distribution |-> Distribution(relevant)]

get_sentiment_trends(days, category) ==
    /\ report' = TrendReport(reviews, days, category, now)
    /\ ret' = Ret("get_sentiment_trends", TRUE, <<>>, <<>>, {})
    /\ UNCHANGED <<alerts, alert_handlers, now>>
    /\ UNCHANGED <<sentimentVars, reviews, doctorLedgers, facilityLedgers, reader, writer,
                   feedbackVars>>

(***************************************************************************)
(* DoctorAnalyzer.register_duty_shift                                      *)
(***************************************************************************)
\* shift_info: the keys the analyzer reads back.
Shift(hours, patient_count, emergency_cases, t) ==
    [hours           |-> hours,
     patient_count   |-> patient_count,
     emergency_cases |-> emergency_cases,
     timestamp       |-> t]

register_duty_shift(doctor_id, hours, patient_count, emergency_cases) ==
    /\ duty_logs' = AppendAt(duty_logs, doctor_id,
                             Shift(hours, patient_count, emergency_cases, now))
    /\ report' = [kind |-> "shift", status |-> "logged", doctor_id |-> doctor_id]
    /\ ret' = Ret("register_duty_shift", TRUE, <<>>, <<>>, {})
    /\ UNCHANGED <<alerts, alert_handlers, now>>
    /\ UNCHANGED <<sentimentVars, reviews, complaints, sentiment_scores,
                   facilityLedgers, reader, writer, feedbackVars>>

(***************************************************************************)
(* DoctorAnalyzer.calculate_burnout_risk                                   *)
(*                                                                         *)
(* With H, P, E the totals of hours, patients and emergencies over the n   *)
(* shifts of the window, the burnout score is                              *)
(*   min(H/n/12, 1)*0.4 + min(P/n/30, 1)*0.35 + min(E/n/5, 1)*0.25.        *)
(* It is kept exact as an integer in units of 1/(6000*n).  fp is the sign  *)
(* of the error of the double the code holds, as for the fused score.      *)
(***************************************************************************)
RECURSIVE Sum(_)
Sum(seq) == IF seq = <<>> THEN 0 ELSE Head(seq) + Sum(Tail(seq))

Min(a, b) == IF a <= b THEN a ELSE b

default_days_window == 30

HoursFactorDropsWhenOver(H, n) == IF 5 * H > 60 * n THEN 0 ELSE 40 * 5 * H

\* min(avg_hours_per_shift / 12, 1.0) * 0.4
HoursFactor(H, n) == 40 * Min(5 * H, 60 * n)

\* min(avg_patients_per_shift / 30, 1.0) * 0.35
PatientFactor(P, n) == 35 * Min(2 * P, 60 * n)

\* min(total_emergencies / num_shifts / 5, 1.0) * 0.25
EmergencyFactor(E, n) == 25 * Min(12 * E, 60 * n)

BurnoutScore(H, P, E, n) == HoursFactor(H, n) + PatientFactor(P, n) + EmergencyFactor(E, n)

\* burnout_score > level on the double, level in tenths.
BurnoutAbove(score, n, level, fp) ==
    score > 600 * level * n \/ (score = 600 * level * n /\ fp > 0)

RiskLevelHighAboveModerate(score, n, fp) ==
    IF BurnoutAbove(score, n, 7, fp) THEN "CRITICAL"
    ELSE IF BurnoutAbove(score, n, 3, fp) THEN "HIGH"
    ELSE "LOW"

\* The risk level of a burnout score.
RiskLevel(score, n, fp) ==
    IF BurnoutAbove(score, n, 7, fp) THEN "CRITICAL"
    ELSE IF BurnoutAbove(score, n, 5, fp) THEN "HIGH"
    ELSE IF BurnoutAbove(score, n, 3, fp) THEN "MODERATE"
    ELSE "LOW"

\* round(a / b, 0) for a >= 0, b > 0, ties by fp and then to even.
RoundDiv(a, b, fp) ==
    LET q == a \div b
        r == a % b
    IN  IF 2 * r < b THEN q
        ELSE IF 2 * r > b THEN q + 1
        ELSE IF fp > 0 THEN q + 1
        ELSE IF fp < 0 THEN q
        ELSE IF q % 2 = 0 THEN q ELSE q + 1

NoMetrics == [k \in {} |-> 0]

EarlyReport(doctor_id, risk_level) ==
    [kind       |-> "burnout",
     doctor_id  |-> doctor_id,
     risk_level |-> risk_level,
     risk_score |-> 0,
     metrics    |-> NoMetrics]

WindowOf(shifts, days_window, t) ==
    SelectSeq(shifts, LAMBDA s : s.timestamp > t - Days(days_window))

NoDataWheneverWindowEmpty(logs, doctor_id, days_window, t) ==
    IF WindowOf(Get(logs, doctor_id), days_window, t) = <<>> THEN "NO_DATA" ELSE NoneStr

\* The level of the two early returns: NO_DATA for a doctor without any
\* shift, LOW for a doctor whose shifts all lie before the window; None
\* when the window holds a shift.
EarlyLevel(logs, doctor_id, days_window, t) ==
    IF Get(logs, doctor_id) = <<>> THEN "NO_DATA"
    ELSE IF WindowOf(Get(logs, doctor_id), days_window, t) = <<>> THEN "LOW"
    ELSE NoneStr

\* The value calculate_burnout_risk(doctor_id, days_window) returns at clock
\* value t.  risk_score is in thousandths; burnout_score is the unrounded
\* local.  The metrics keep the totals and the number of shifts, of which
\* the reported averages and factors are rounded quotients.
BurnoutReport(logs, doctor_id, days_window, t, fp) ==
    LET recent == WindowOf(Get(logs, doctor_id), days_window, t)
        n      == Len(recent)
        H      == Sum([i \in 1..n |-> recent[i].hours])
        P      == Sum([i \in 1..n |-> recent[i].patient_count])
        E      == Sum([i \in 1..n |-> recent[i].emergency_cases])
        early  == EarlyLevel(logs, doctor_id, days_window, t)
    IN  IF early # NoneStr
           THEN EarlyReport(doctor_id, early)
           ELSE [kind          |-> "burnout",
                 doctor_id     |-> doctor_id,
                 risk_level    |-> RiskLevel(BurnoutScore(H, P, E, n), n, fp),
                 risk_score    |-> RoundDiv(BurnoutScore(H, P, E, n), 6 * n, fp),
                 burnout_score |-> BurnoutScore(H, P, E, n),
                 metrics       |-> [total_hours           |-> H,
                                    total_patients        |-> P,
                                    total_emergency_cases |-> E,
                                    total_shifts_analyzed |-> n]]

calculate_burnout_risk(doctor_id, days_window) ==
    /\ \E fp \in FloatSigns :
          report' = BurnoutReport(duty_logs, doctor_id, days_window, now, fp)
    /\ ret' = Ret("calculate_burnout_risk", TRUE, <<>>, <<>>, {})
    /\ UNCHANGED <<alerts, alert_handlers, now>>
    /\ UNCHANGED <<sentimentVars, reviews, doctorLedgers, facilityLedgers, reader, writer,
                   feedbackVars>>

(***************************************************************************)
(* log_duty_shift (app.py): the shift is registered, the burnout risk of   *)
(* the doctor computed over the default window and handed to               *)
(* check_burnout_alert.                                                    *)
(***************************************************************************)
log_duty_shift(doctor_id, hours, patient_count, emergency_cases) ==
    /\ duty_logs' = AppendAt(duty_logs, doctor_id,
                             Shift(hours, patient_count, emergency_cases, now))
    /\ \E fp \in FloatSigns :
          /\ report' = BurnoutReport(duty_logs', doctor_id, default_days_window, now, fp)
          /\ Check("log_duty_shift", "DOCTOR_BURNOUT",
                   BurnoutAlertSeverity(report'.risk_level))
    /\ UNCHANGED <<sentimentVars, reviews, complaints, sentiment_scores,
                   facilityLedgers, reader, writer, feedbackVars>>

(***************************************************************************)
(* FacilityQualityMonitor (facility_monitor.py).  Scores are on the 1..5   *)
(* scale, in tenths.  The alert of a submission is the empty sequence for  *)
(* None and a sequence of one alert signal otherwise.                      *)
(***************************************************************************)
FoodSignal(quality_score, t) ==
    IF quality_score <= 20
       THEN <<[type |-> "FOOD_QUALITY_CRITICAL", severity |-> "HIGH", timestamp |-> t]>>
       ELSE <<>>

submit_food_quality_review(review_id, quality_score, aspects, comments) ==
    /\ food_reviews' = AppendAt(food_reviews, review_id,
                                [review_id      |-> review_id,
                                 quality_score  |-> quality_score,
                                 aspects        |-> aspects,
                                 comments       |-> comments,
                                 submitted_date |-> now,
                                 status         |-> "ACTIVE"])
    /\ report' = [kind      |-> "food_submission",
                  status    |-> "submitted",
                  review_id |-> review_id,
                  alert     |-> FoodSignal(quality_score, now)]
    /\ ret' = Ret("submit_food_quality_review", TRUE, <<>>, <<>>, {})
    /\ UNCHANGED <<alerts, alert_handlers, now>>
    /\ UNCHANGED <<sentimentVars, reviews, doctorLedgers, room_reviews, reader, writer,
                   feedbackVars>>

RoomSignalStrictlyBelow(room_id, cleanliness_score, t) ==
    IF cleanliness_score < 20
       THEN <<[type |-> "ROOM_QUALITY_CRITICAL", severity |-> "HIGH",
               room_id |-> room_id, timestamp |-> t]>>
       ELSE <<>>

\* alert of submit_room_quality_review: cleanliness_score <= 2.
RoomSignal(room_id, cleanliness_score, t) ==
    IF cleanliness_score <= 20
       THEN <<[type |-> "ROOM_QUALITY_CRITICAL", severity |-> "HIGH",
               room_id |-> room_id, timestamp |-> t]>>
       ELSE <<>>

RoomReview(review_id, room_id, cleanliness_score, aspects, comments, t) ==
    [review_id         |-> review_id,
     room_id           |-> room_id,
     cleanliness_score |-> cleanliness_score,
     aspects           |-> aspects,
     comments          |-> comments,
     submitted_date    |-> t,
     status            |-> "ACTIVE"]

submit_room_quality_review(review_id, room_id, cleanliness_score, aspects, comments) ==
    /\ room_reviews' = AppendAt(room_reviews, room_id,
                                RoomReview(review_id, room_id, cleanliness_score,
                                           aspects, comments, now))
    /\ report' = [kind      |-> "room_submission",
                  status    |-> "submitted",
                  review_id |-> review_id,
                  room_id   |-> room_id,
                  alert     |-> RoomSignal(room_id, cleanliness_score, now)]
    /\ ret' = Ret("submit_room_quality_review", TRUE, <<>>, <<>>, {})
    /\ UNCHANGED <<alerts, alert_handlers, now>>
    /\ UNCHANGED <<sentimentVars, reviews, doctorLedgers, food_reviews, reader, writer,
                   feedbackVars>>

\* The entries of all lists of a ledger, as (key, position) pairs.
Entries(ledger) == UNION {{<<k, i>> : i \in 1..Len(ledger[k])} : k \in DOMAIN ledger}

\* all_reviews of the two trend analyses: the entries of every list of the
\* ledger submitted after t - days, as (key, position) pairs.
InPeriod(ledger, days, t) ==
    {p \in Entries(ledger) : ledger[p[1]][p[2]].submitted_date > t - Days(days)}

RECURSIVE SumOver(_, _)
SumOver(S, f) ==
    IF S = {} THEN 0
    ELSE LET x == CHOOSE y \in S : TRUE
         IN  f[x] + SumOver(S \ {x}, f)

\* _get_food_quality_status and _get_room_quality_status of the mean
\* total / count.
QualityStatus(total, count) ==
    IF total >= 45 * count THEN "EXCELLENT"
    ELSE IF total >= 40 * count THEN "VERY_GOOD"
    ELSE IF total >= 35 * count THEN "GOOD"
    ELSE IF total >= 25 * count THEN "FAIR"
    ELSE "POOR"

\* The report of a trend analysis over the entries S whose scores are given
\* by the function score: the number of entries, the sum of their scores (the reported
\* average is its rounded quotient by the number) and the status.
FacilityReport(kind, days, S, score) ==
    IF S = {}
       THEN [kind |-> kind, period_days |-> days, total_reviews |-> 0, average |-> 0]
       ELSE [kind           |-> kind,
             period_days    |-> days,
             total_reviews  |-> Cardinality(S),
             score_total    |-> SumOver(S, score),
             quality_status |-> QualityStatus(SumOver(S, score), Cardinality(S))]

analyze_food_quality_trends(days) ==
    /\ report' = FacilityReport("food_trends", days, InPeriod(food_reviews, days, now),
                                [p \in InPeriod(food_reviews, days, now) |->
                                    food_reviews[p[1]][p[2]].quality_score])
    /\ ret' = Ret("analyze_food_quality_trends", TRUE, <<>>, <<>>, {})
    /\ UNCHANGED <<alerts, alert_handlers, now>>
    /\ UNCHANGED <<sentimentVars, reviews, doctorLedgers, facilityLedgers, reader, writer,
                   feedbackVars>>

analyze_room_quality_trends(days) ==
    /\ report' = FacilityReport("room_trends", days, InPeriod(room_reviews, days, now),
                                [p \in InPeriod(room_reviews, days, now) |->
                                    room_reviews[p[1]][p[2]].cleanliness_score])
    /\ ret' = Ret("analyze_room_quality_trends", TRUE, <<>>, <<>>, {})
    /\ UNCHANGED <<alerts, alert_handlers, now>>
    /\ UNCHANGED <<sentimentVars, reviews, doctorLedgers, facilityLedgers, reader, writer,
                   feedbackVars>>

(***************************************************************************)
(* SentimentTrendAnalyzer.cluster_issues                                   *)
(***************************************************************************)
AllReviewsAsNegative(ledger) == ledger

\* negative_reviews
NegativeReviews(ledger) == SelectSeq(ledger, LAMBDA r : r.sentiment_label = "NEGATIVE")

\* The keywords of the reviews in the order the loop meets them.
RECURSIVE Flatten(_)
Flatten(seq) ==
    IF seq = <<>> THEN <<>> ELSE Head(seq).keywords \o Flatten(Tail(seq))

\* The keys of a dict filled in the order of seq: each value once, in the
\* order of first occurrence.
RECURSIVE Distinct(_)
Distinct(seq) ==
    IF seq = <<>> THEN <<>>
    ELSE LET rest == Distinct(SubSeq(seq, 1, Len(seq) - 1))
             x    == seq[Len(seq)]
         IN  IF \E i \in 1..Len(rest) : rest[i] = x THEN rest ELSE Append(rest, x)

RECURSIVE RankedKeywordsLastSeenFirst(_, _)
RankedKeywordsLastSeenFirst(keys, flat) ==
    IF keys = <<>> THEN <<>>
    ELSE LET n(k) == Count(flat, LAMBDA w : w = k)
             i    == CHOOSE j \in 1..Len(keys) :
                        /\ \A l \in 1..Len(keys) : n(keys[l]) <= n(keys[j])
                        /\ \A l \in (j + 1)..Len(keys) : n(keys[l]) < n(keys[j])
         IN  <<keys[i]>> \o RankedKeywordsLastSeenFirst(SubSeq(keys, 1, i - 1) \o
                                           SubSeq(keys, i + 1, Len(keys)), flat)

\* sorted(all_keywords.items(), key=count, reverse=True): the keys by
\* descending count in flat, keys of equal count in their given order.
RECURSIVE RankedKeywords(_, _)
RankedKeywords(keys, flat) ==
    IF keys = <<>> THEN <<>>
    ELSE LET n(k) == Count(flat, LAMBDA w : w = k)
             i    == CHOOSE j \in 1..Len(keys) :
                        /\ \A l \in 1..Len(keys) : n(keys[l]) <= n(keys[j])
                        /\ \A l \in 1..(j - 1) : n(keys[l]) < n(keys[j])
         IN  <<keys[i]>> \o RankedKeywords(SubSeq(keys, 1, i - 1) \o
                                           SubSeq(keys, i + 1, Len(keys)), flat)

\* review_keyword_map[rid]: the keywords of the last negative review that
\* carries the id.
KeywordsOfId(negative, rid) ==
    LET i == CHOOSE j \in 1..Len(negative) :
                /\ negative[j].review_id = rid
                /\ \A l \in (j + 1)..Len(negative) : negative[l].review_id # rid
    IN  negative[i].keywords

ClusterSeverityAboveOnly(related_reviews) ==
    IF Len(related_reviews) > 10 THEN "CRITICAL"
    ELSE IF Len(related_reviews) > 5 THEN "HIGH"
    ELSE IF Len(related_reviews) > 3 THEN "MEDIUM"
    ELSE "LOW"

\* _calculate_cluster_severity
ClusterSeverity(related_reviews) ==
    IF Len(related_reviews) >= 10 THEN "CRITICAL"
    ELSE IF Len(related_reviews) >= 5 THEN "HIGH"
    ELSE IF Len(related_reviews) >= 3 THEN "MEDIUM"
    ELSE "LOW"

\* The words of the theme buckets that occur in a keyword (word in
\* issue_lower), for the keywords of the model.
ThemeWords(keyword) ==
    CASE keyword = "wait"      -> {"wait"}
      [] keyword = "waitstaff" -> {"wait", "staff"}
      [] keyword = "dirty"     -> {"dirty"}
      [] OTHER                 -> {}

\* _get_cluster_recommendation
ClusterRecommendation(keyword) ==
    IF ThemeWords(keyword) \cap {"staff", "doctor", "nurse"} # {}
       THEN "Review staff training and conduct 1-on-1 meetings"
    ELSE IF ThemeWords(keyword) \cap {"clean", "dirty", "hygiene"} # {}
       THEN "Increase housekeeping frequency and conduct audits"
    ELSE IF ThemeWords(keyword) \cap {"food", "meal", "diet"} # {}
       THEN "Review food preparation procedures with catering team"
    ELSE IF ThemeWords(keyword) \cap {"wait", "delay", "slow"} # {}
       THEN "Review process efficiency and resource allocation"
    ELSE IF ThemeWords(keyword) \cap {"pain", "discomfort", "ache"} # {}
       THEN "Review pain management protocols with medical team"
    ELSE "Investigate and implement corrective measures"

\* The report of cluster_issues from its three reads of self.reviews: the
\* length read by the first test, the negative reviews selected by the
\* comprehension, and the length read for total_reviews.
ClusterReportOf(len_first, negative, len_last, max_clusters) ==
    LET flat   == Flatten(negative)
        ranked == RankedKeywords(Distinct(flat), flat)
        ids    == Distinct([i \in 1..Len(negative) |-> negative[i].review_id])
        related(k) ==
            SelectSeq(ids, LAMBDA rid :
                \E i \in 1..Len(KeywordsOfId(negative, rid)) :
                    KeywordsOfId(negative, rid)[i] = k)
    IN  IF len_first < 3
           THEN [kind |-> "clusters", clusters |-> <<>>,
                 clustering_method |-> "keyword_based"]
        ELSE IF negative = <<>>
           THEN [kind |-> "clusters", clusters |-> <<>>, total_reviews |-> len_last,
                 message |-> "No negative reviews to cluster"]
        ELSE [kind |-> "clusters",
              total_negative_reviews |-> Len(negative),
              clusters |->
                  [idx \in 1..Min(max_clusters, Len(ranked)) |->
                      [cluster_id      |-> idx,
                       primary_issue   |-> ranked[idx],
                       frequency       |-> Count(flat, LAMBDA w : w = ranked[idx]),
                       related_reviews |-> related(ranked[idx]),
                       severity        |-> ClusterSeverity(related(ranked[idx])),
                       recommendation  |-> ClusterRecommendation(ranked[idx])]],
              clustering_method |-> "keyword_frequency_based"]

\* cluster_issues(max_clusters) run without interruption.
cluster_issues(max_clusters) ==
    /\ report' = ClusterReportOf(Len(reviews), NegativeReviews(reviews),
                                 Len(reviews), max_clusters)
    /\ ret' = Ret("cluster_issues", TRUE, <<>>, <<>>, {})
    /\ UNCHANGED <<alerts, alert_handlers, now>>
    /\ UNCHANGED <<sentimentVars, reviews, doctorLedgers, facilityLedgers, reader, writer,
                   feedbackVars>>

(***************************************************************************)
(* DoctorAnalyzer: complaints, sentiment samples, rating and the           *)
(* performance dashboard.                                                  *)
(***************************************************************************)
file_complaint(doctor_id, complaint_type, severity) ==
    /\ complaints' = AppendAt(complaints, doctor_id,
                              [complaint_id  |-> <<doctor_id, now>>,
                               doctor_id     |-> doctor_id,
                               type          |-> complaint_type,
                               severity      |-> severity,
                               status        |-> "OPEN",
                               filed_date    |-> now,
                               resolved_date |-> NoTime])
    /\ report' = [kind |-> "complaint", status |-> "filed",
                  complaint_id |-> <<doctor_id, now>>, doctor_id |-> doctor_id]
    /\ ret' = Ret("file_complaint", TRUE, <<>>, <<>>, {})
    /\ UNCHANGED <<alerts, alert_handlers, now>>
    /\ UNCHANGED <<sentimentVars, reviews, duty_logs, sentiment_scores,
                   facilityLedgers, reader, writer, feedbackVars>>

\* The value of get_complaint_history: the number of complaints, the last
\* five of them and _calculate_complaint_status.
ComplaintHistory(doctor_id) ==
    LET cs         == Get(complaints, doctor_id)
        unresolved == Count(cs, LAMBDA c : c.status = "OPEN")
        critical   == Count(cs, LAMBDA c : c.severity = "CRITICAL")
    IN  IF cs = <<>>
           THEN [kind |-> "complaints", doctor_id |-> doctor_id, total_complaints |-> 0]
           ELSE [kind              |-> "complaints",
                 doctor_id         |-> doctor_id,
                 total_complaints  |-> Len(cs),
                 recent_complaints |-> SubSeq(cs, IF Len(cs) > 5 THEN Len(cs) - 4 ELSE 1, Len(cs)),
                 complaint_status  |-> IF critical > 0 \/ unresolved > 3 THEN "CRITICAL"
                                       ELSE IF unresolved > 1 THEN "CONCERNING"
                                       ELSE "ACCEPTABLE"]

get_complaint_history(doctor_id) ==
    /\ report' = ComplaintHistory(doctor_id)
    /\ ret' = Ret("get_complaint_history", TRUE, <<>>, <<>>, {})
    /\ UNCHANGED <<alerts, alert_handlers, now>>
    /\ UNCHANGED <<sentimentVars, reviews, doctorLedgers, facilityLedgers, reader, writer,
                   feedbackVars>>

track_sentiment(doctor_id, sentiment_score) ==
    /\ sentiment_scores' = AppendAt(sentiment_scores, doctor_id,
                                    [score |-> sentiment_score, review_id |-> NoneStr,
                                     timestamp |-> now])
    /\ report' = NoReport
    /\ ret' = Ret("track_sentiment", FALSE, <<>>, <<>>, {})
    /\ UNCHANGED <<alerts, alert_handlers, now>>
    /\ UNCHANGED <<sentimentVars, reviews, duty_logs, complaints, facilityLedgers, reader, writer,
                   feedbackVars>>

RatingBinZeroBased(score) ==
    LET v     == 2 * score + 3000
        int_v == IF v >= 0 THEN v \div 1000 ELSE -((-v) \div 1000)
    IN  (IF int_v < 1 THEN 1 ELSE IF int_v > 5 THEN 5 ELSE int_v) - 1

\* bin_num = min(5, max(1, int(((score + 1) / 2) * 4 + 1))) of a score in
\* thousandths; int() drops the fraction.
RatingBin(score) ==
    LET v     == 2 * score + 3000
        int_v == IF v >= 0 THEN v \div 1000 ELSE -((-v) \div 1000)
    IN  IF int_v < 1 THEN 1 ELSE IF int_v > 5 THEN 5 ELSE int_v

\* The value of get_doctor_rating: the number of samples, the sum of their
\* scores, the rating ((mean + 1) / 2) * 4 + 1 rounded to hundredths, and
\* rating_distribution, which has a key for every bin that holds a sample.
DoctorRating(doctor_id, fp) ==
    LET ss == Get(sentiment_scores, doctor_id)
        T  == Sum([i \in 1..Len(ss) |-> ss[i].score])
    IN  IF ss = <<>>
           THEN [kind |-> "rating", doctor_id |-> doctor_id, rating |-> 0,
                 total_reviews |-> 0, rating_distribution |-> NoMetrics]
           ELSE [kind |-> "rating", doctor_id |-> doctor_id,
                 rating        |-> RoundDiv(T + 1500 * Len(ss), 5 * Len(ss), fp),
                 total_reviews |-> Len(ss),
                 score_total   |-> T,
                 rating_distribution |->
                     [b \in {RatingBin(ss[i].score) : i \in 1..Len(ss)} |->
                         Count(ss, LAMBDA x : RatingBin(x.score) = b)]]

get_doctor_rating(doctor_id) ==
    /\ \E fp \in FloatSigns : report' = DoctorRating(doctor_id, fp)
    /\ ret' = Ret("get_doctor_rating", TRUE, <<>>, <<>>, {})
    /\ UNCHANGED <<alerts, alert_handlers, now>>
    /\ UNCHANGED <<sentimentVars, reviews, doctorLedgers, facilityLedgers, reader, writer,
                   feedbackVars>>

PerformanceScoreUncapped(rating, risk_score, total_complaints) ==
    10 * rating + 3 * (1000 - risk_score) + 20 * (100 - 5 * total_complaints)

\* performance_score in hundredths of a point, of a rating in hundredths
\* and a risk score in thousandths:
\* (rating / 5 * 100) * 0.5 + ((1 - risk_score) * 100) * 0.3
\*    + (100 - min(total_complaints * 5, 100)) * 0.2
PerformanceScore(rating, risk_score, total_complaints) ==
    10 * rating + 3 * (1000 - risk_score) + 20 * (100 - Min(5 * total_complaints, 100))

\* get_doctor_performance_dashboard: the score and the three analyses it
\* is made of.
get_doctor_performance_dashboard(doctor_id) ==
    /\ \E fp \in FloatSigns, fr \in FloatSigns :
          LET burnout == BurnoutReport(duty_logs, doctor_id, default_days_window, now, fp)
              rating  == DoctorRating(doctor_id, fr)
          IN  report' = [kind               |-> "performance",
                         doctor_id          |-> doctor_id,
                         overall_performance_score |->
                             PerformanceScore(rating.rating, burnout.risk_score,
                                              ComplaintHistory(doctor_id).total_complaints),
                         burnout_analysis   |-> burnout,
                         complaint_analysis |-> ComplaintHistory(doctor_id),
                         patient_rating     |-> rating]
    /\ ret' = Ret("get_doctor_performance_dashboard", TRUE, <<>>, <<>>, {})
    /\ UNCHANGED <<alerts, alert_handlers, now>>
    /\ UNCHANGED <<sentimentVars, reviews, doctorLedgers, facilityLedgers, reader, writer,
                   feedbackVars>>

(***************************************************************************)
(* get_emotion_analysis, get_alert_statistics, get_dashboard_overview      *)
(***************************************************************************)
\* get_emotion_analysis: the filter of the trend report; the emotion means
\* are taken over the reviews it selects.
get_emotion_analysis(category, days) ==
    /\ report' = [kind          |-> "emotions",
                  period_days   |-> days,
                  total_reviews |-> Len(TrendFilter(reviews, days, category, now))]
    /\ ret' = Ret("get_emotion_analysis", TRUE, <<>>, <<>>, {})
    /\ UNCHANGED <<alerts, alert_handlers, now>>
    /\ UNCHANGED <<sentimentVars, reviews, doctorLedgers, facilityLedgers, reader, writer,
                   feedbackVars>>

\* get_alert_statistics over the alerts created after now - hours.
get_alert_statistics(hours) ==
    LET recent_alerts == SelectSeq(alerts, LAMBDA a : a.created_at > now - hours)
    IN  /\ report' = [kind                  |-> "statistics",
                      period_hours          |-> hours,
                      total_alerts          |-> Len(recent_alerts),
                      unacknowledged_alerts |-> Count(recent_alerts, IsUnacknowledged),
                      severity_distribution |->
                          [s \in AlertSeverity |->
                              Count(recent_alerts, LAMBDA a : a.severity = s)]]
        /\ ret' = Ret("get_alert_statistics", TRUE, <<>>, <<>>, {})
        /\ UNCHANGED <<alerts, alert_handlers, now>>
        /\ UNCHANGED <<sentimentVars, reviews, doctorLedgers, facilityLedgers, reader, writer,
                       feedbackVars>>

\* DoctorAnalyzer.doctors: the dictionary __init__ sets up empty.  No
\* method of the analyzer or of the routes writes to it.
doctors == {}

\* OperationsDashboard.get_dashboard_overview: the summaries are taken from
\* the trend report of 7 days and the two facility analyses of 30 days; the
\* doctors at risk and the BURNOUT_CRITICAL alerts from the burnout risk of
\* the keys of doctor_analyzer.doctors, the CRITICAL_COMPLAINT alerts from
\* the complaints.
get_dashboard_overview ==
    /\ \E fp \in [doctors -> FloatSigns] :
          LET level(d) == BurnoutReport(duty_logs, d, default_days_window, now,
                                        fp[d]).risk_level
          IN  report' =
                [kind              |-> "overview",
                 sentiment_summary |->
                     [total_reviews_week |-> Len(TrendFilter(reviews, 7, NoneStr, now))],
                 doctor_summary    |->
                     [total_complaints     |-> Cardinality(DOMAIN complaints),
                      open_complaints      |->
                          Cardinality({p \in Entries(complaints) :
                                          complaints[p[1]][p[2]].status = "OPEN"}),
                      burnout_risk_doctors |->
                          Cardinality({d \in doctors : level(d) \in {"HIGH", "CRITICAL"}})],
                 facility_summary  |->
                     [food |-> FacilityReport("food_trends", 30,
                                              InPeriod(food_reviews, 30, now),
                                              [p \in InPeriod(food_reviews, 30, now) |->
                                                  food_reviews[p[1]][p[2]].quality_score]),
                      room |-> FacilityReport("room_trends", 30,
                                              InPeriod(room_reviews, 30, now),
                                              [p \in InPeriod(room_reviews, 30, now) |->
                                                  room_reviews[p[1]][p[2]].cleanliness_score])],
                 critical_alerts   |->
                     {[type |-> "BURNOUT_CRITICAL", doctor_id |-> d, severity |-> "HIGH"] :
                         d \in {k \in doctors : level(k) = "CRITICAL"}}
                     \cup
                     {[type |-> "CRITICAL_COMPLAINT", doctor_id |-> d, severity |-> "CRITICAL"] :
                         d \in {k \in DOMAIN complaints :
                                   \E i \in 1..Len(complaints[k]) :
                                      complaints[k][i].severity = "CRITICAL"}}]
    /\ ret' = Ret("get_dashboard_overview", TRUE, <<>>, <<>>, {})
    /\ UNCHANGED <<alerts, alert_handlers, now>>
    /\ UNCHANGED <<sentimentVars, reviews, doctorLedgers, facilityLedgers, reader, writer,
                   feedbackVars>>

(***************************************************************************)
(* Requests served on threads of their own.  The engines hold no lock, so  *)
(* another thread may run between any two bytecodes of a method; a step    *)
(* below is one read or one write of a ledger.                             *)
(***************************************************************************)
\* file_complaint: the statement self.complaints[doctor_id].append(complaint)
\* is a subscript, which puts an empty list under a doctor_id the
\* defaultdict does not hold yet, and then the append to that list.
file_complaint_thread(doctor_id, complaint_type, severity) ==
    \/ /\ writer.pc = "idle"
       /\ writer' = [pc        |-> "append",
                     doctor_id |-> doctor_id,
                     complaint |-> [complaint_id  |-> <<doctor_id, now>>,
                                    doctor_id     |-> doctor_id,
                                    type          |-> complaint_type,
                                    severity      |-> severity,
                                    status        |-> "OPEN",
                                    filed_date    |-> now,
                                    resolved_date |-> NoTime]]
       /\ complaints' = [k \in DOMAIN complaints \cup {doctor_id} |-> Get(complaints, k)]
       /\ UNCHANGED <<alertVars, sentimentVars, reviews, duty_logs, sentiment_scores,
                      facilityLedgers, report, reader, feedbackVars>>
    \/ /\ writer.pc = "append"
       /\ complaints' = AppendAt(complaints, writer.doctor_id, writer.complaint)
       /\ writer' = NoWriter
       /\ report' = [kind |-> "complaint", status |-> "filed",
                     complaint_id |-> writer.complaint.complaint_id,
                     doctor_id |-> writer.doctor_id]
       /\ ret' = Ret("file_complaint", TRUE, <<>>, <<>>, {})
       /\ UNCHANGED <<alerts, alert_handlers, now>>
       /\ UNCHANGED <<sentimentVars, reviews, duty_logs, sentiment_scores,
                      facilityLedgers, reader, feedbackVars>>

\* cluster_issues: len(self.reviews) of the first test, the comprehension
\* that selects the negative reviews, and len(self.reviews) for
\* total_reviews are three reads of the ledger.
cluster_issues_thread(max_clusters) ==
    \/ /\ reader.pc = "idle"
       /\ IF Len(reviews) < 3
             THEN /\ report' = ClusterReportOf(Len(reviews), <<>>, 0, max_clusters)
                  /\ ret' = Ret("cluster_issues", TRUE, <<>>, <<>>, {})
                  /\ UNCHANGED reader
             ELSE /\ reader' = [pc |-> "select", len_first |-> Len(reviews)]
                  /\ UNCHANGED <<report, ret>>
       /\ UNCHANGED <<alerts, alert_handlers, now>>
       /\ UNCHANGED <<sentimentVars, reviews, doctorLedgers, facilityLedgers, writer,
                      feedbackVars>>
    \/ /\ reader.pc = "select"
       /\ IF NegativeReviews(reviews) # <<>>
             THEN /\ report' = ClusterReportOf(reader.len_first, NegativeReviews(reviews),
                                               0, max_clusters)
                  /\ ret' = Ret("cluster_issues", TRUE, <<>>, <<>>, {})
                  /\ reader' = NoReader
             ELSE /\ reader' = [pc |-> "total", len_first |-> reader.len_first]
                  /\ UNCHANGED <<report, ret>>
       /\ UNCHANGED <<alerts, alert_handlers, now>>
       /\ UNCHANGED <<sentimentVars, reviews, doctorLedgers, facilityLedgers, writer,
                      feedbackVars>>
    \/ /\ reader.pc = "total"
       /\ report' = ClusterReportOf(reader.len_first, <<>>, Len(reviews), max_clusters)
       /\ ret' = Ret("cluster_issues", TRUE, <<>>, <<>>, {})
       /\ reader' = NoReader
       /\ UNCHANGED <<alerts, alert_handlers, now>>
       /\ UNCHANGED <<sentimentVars, reviews, doctorLedgers, facilityLedgers, writer,
                      feedbackVars>>

(***************************************************************************)
(* The feedback log of the application (app.py): a file of one JSON record *)
(* per line.  submit_review appends a line to it; a call of                *)
(* reprocess_pending_feedback_once reads the whole file, analyses again    *)
(* the records saved without an analysis and, when it updated one, puts a  *)
(* file written from its list of records in the place of the log.  The     *)
(* background thread runs beside the request handlers of the server, so    *)
(* other requests run between the read and the replacement.  A log that    *)
(* does not exist and an empty log are the same to both operations.        *)
(***************************************************************************)
\* log_entry: the keys the reprocessing reads and writes.  The key
\* analysis_unavailable is not in a record submit_review writes; get() of
\* it is None, which FALSE stands for.
LogEntry(review_id, review_text, a, t) ==
    [review_id            |-> review_id,
     created_at           |-> t,
     review_text          |-> review_text,
     overall_score        |-> a.overall_score,
     sentiment_label      |-> a.sentiment_label,
     analysis_unavailable |-> FALSE,
     reprocessed_at       |-> NoTime]

\* submit_review: the analysis of the text, or the fallback analysis when
\* the analyzer raised; the review goes to the trend analyzer, its record
\* to the end of the feedback log, its score to the sentiment check and,
\* with a doctor_id, to the doctor's sentiment ledger.  review_id is made
\* from the clock.
submit_review(review_text, raised, doctor_id) ==
    LET a == IF raised THEN NoAnalysis ELSE AnalysisOf(review_text)
    IN  /\ Len(reviews) < MaxSubmissions
        /\ reviews' = Append(reviews,
                             Review(now, [keywords |-> <<>>] @@ a, "general", now))
        /\ feedback_log' = Append(feedback_log, LogEntry(now, review_text, a, now))
        /\ Check("submit_review", "SENTIMENT_CRITICAL",
                 SentimentAlertSeverity(a.overall_score))
        /\ sentiment_scores' =
              IF doctor_id = NoneStr THEN sentiment_scores
              ELSE AppendAt(sentiment_scores, doctor_id,
                            [score |-> a.overall_score, review_id |-> NoneStr,
                             timestamp |-> now])
        /\ report' = NoReport
        /\ UNCHANGED <<sentimentVars, duty_logs, complaints, facilityLedgers,
                       reader, writer, reprocess>>

\* The test of the loop over the records: a fallback or unprocessed entry.
Pending(rec) == rec.analysis_unavailable \/ rec.sentiment_label \in {NoneStr, "UNKNOWN"}

\* The record after its fields were updated with a fresh analysis.
Reanalysed(rec, t) ==
    [rec EXCEPT !.overall_score        = AnalysisOf(rec.review_text).overall_score,
                !.sentiment_label      = AnalysisOf(rec.review_text).sentiment_label,
                !.analysis_unavailable = FALSE,
                !.reprocessed_at       = t]

\* The list records after the loop, when the analysis of the records at
\* the positions in raises raised.
Reprocessed(log, raises, t) ==
    [i \in 1..Len(log) |->
        IF Pending(log[i]) /\ i \notin raises THEN Reanalysed(log[i], t) ELSE log[i]]

\* updated_count
UpdatedCount(log, raises) ==
    Cardinality({i \in 1..Len(log) : Pending(log[i]) /\ i \notin raises})

\* reprocess_pending_feedback_once of a caller, in two steps: the read of
\* the log with the loop over its records, which works on the list in
\* memory, and os.replace of the log by the file written from that list.
\* Without an updated record the call returns after the first step.
reprocess_pending_feedback_once(caller) ==
    \/ /\ reprocess[caller].pc = "idle"
       /\ \E raises \in SUBSET {i \in 1..Len(feedback_log) : Pending(feedback_log[i])} :
             IF UpdatedCount(feedback_log, raises) > 0
                THEN /\ reprocess' =
                           [reprocess EXCEPT ![caller] =
                               [pc      |-> "replace",
                                records |-> Reprocessed(feedback_log, raises, now)]]
                     /\ UNCHANGED ret
                ELSE /\ ret' = Ret("reprocess_pending_feedback_once", FALSE,
                                   <<>>, <<>>, {})
                     /\ UNCHANGED reprocess
       /\ UNCHANGED <<alerts, alert_handlers, now, feedback_log>>
       /\ UNCHANGED <<sentimentVars, reviews, doctorLedgers, facilityLedgers, report,
                      reader, writer>>
    \/ /\ reprocess[caller].pc = "replace"
       /\ feedback_log' = reprocess[caller].records
       /\ reprocess' = [reprocess EXCEPT ![caller] = NoReprocess]
       /\ ret' = Ret("reprocess_pending_feedback_once", TRUE, <<>>, <<>>, {})
       /\ UNCHANGED <<alerts, alert_handlers, now>>
       /\ UNCHANGED <<sentimentVars, reviews, doctorLedgers, facilityLedgers, report,
                      reader, writer>>

(***************************************************************************)
(* Spec: the life cycle of alerts.  Alerts are created directly and by a   *)
(* check, acknowledged, listed and exported, while the clock advances.     *)
(***************************************************************************)
Init ==
    /\ InitAlerts
    /\ InitAnalytics
    /\ text = NoText
    /\ analysis = NoAnalysis
    /\ transformer = FALSE

Next ==
    \/ Tick
    \/ \E sev \in AlertSeverity : create_alert("SYSTEM_ERROR", sev)
    \/ \E score \in QualityScores : check_room_quality_alert(score)
    \/ \E id \in AlertIds, u \in Users : acknowledge_alert(id, u)
    \/ \E sev \in AlertSeverity \cup {NoneStr} : get_active_alerts(sev)
    \/ \E hours \in {0, 1}, written \in BOOLEAN : export_alerts_json(hours, written)

Spec == Init /\ [][Next]_vars

(***************************************************************************)
(* SpecChecks: the six threshold checks on a registry.                     *)
(***************************************************************************)
NextChecks ==
    \/ \E score \in SentimentScores : check_sentiment_alert(score)
    \/ \E level \in LevelInputs : check_burnout_alert(level)
    \/ \E sev \in LevelInputs : check_complaint_alert(sev)
    \/ \E score \in QualityScores : check_food_quality_alert(score)
    \/ \E score \in QualityScores : check_room_quality_alert(score)
    \/ \E f \in Frequencies : check_issue_cluster_alert(f)

SpecChecks == Init /\ [][NextChecks]_vars

(***************************************************************************)
(* SpecHandlers: handlers are registered and alerts created; any call of   *)
(* a handler may raise.                                                    *)
(***************************************************************************)
HandlerTypes == {"SYSTEM_ERROR", "DOCTOR_BURNOUT"}

NextHandlers ==
    \/ \E t \in HandlerTypes, h \in Handlers : register_handler(t, h)
    \/ \E t \in HandlerTypes, sev \in {"CRITICAL", "LOW"} : create_alert(t, sev)

SpecHandlers == Init /\ [][NextHandlers]_vars

(***************************************************************************)
(* SpecSentiment: comprehensive_analysis applied to every text of Texts,   *)
(* with the transformer loaded and not loaded.                             *)
(***************************************************************************)
NextSentiment == comprehensive_analysis

InitAnalyzer == InitAlerts /\ InitAnalytics /\ InitSentiment

SpecSentiment == InitAnalyzer /\ [][NextSentiment]_vars

(***************************************************************************)
(* Properties of the alert engine                                          *)
(***************************************************************************)
LastAlert(registry) == registry[Len(registry)]

\* C1: get_active_alerts returns the unacknowledged alerts most severe
\* first: CRITICAL before HIGH before MEDIUM before LOW.
C1_MostSevereFirst ==
    ret.op = "get_active_alerts" =>
        \A i, j \in 1..Len(ret.val) :
            i < j => SeverityRank(ret.val[i]) <= SeverityRank(ret.val[j])

\* C2: acknowledging an already acknowledged alert is a no-op: the second
\* acknowledge_alert leaves acknowledged_at and acknowledged_by as the first
\* acknowledgment set them.
C2_ReacknowledgeIsNoOp ==
    [][\A i \in 1..Len(alerts) :
          alerts[i].acknowledged =>
              /\ alerts'[i].acknowledged_at = alerts[i].acknowledged_at
              /\ alerts'[i].acknowledged_by = alerts[i].acknowledged_by]_vars

\* C3: an alert enters the registry unacknowledged, with no acknowledgment
\* time or actor, and an acknowledged alert stays in the registry and stays
\* acknowledged through every later operation.
C3_AcknowledgedIsTerminal ==
    [][/\ Len(alerts') >= Len(alerts)
       /\ \A i \in 1..Len(alerts') :
             IF i <= Len(alerts)
                THEN alerts[i].acknowledged => alerts'[i].acknowledged
                ELSE /\ ~alerts'[i].acknowledged
                     /\ alerts'[i].acknowledged_at = NoTime
                     /\ alerts'[i].acknowledged_by = NoneStr]_vars

\* An acknowledged alert, an alert created after it, and then an export.
C3_Witness ==
    /\ ret.op = "export_alerts_json"
    /\ \E i \in 1..Len(alerts) : alerts[i].acknowledged /\ i < Len(alerts)

\* C4: acknowledge_alert with an id that no alert of the registry carries
\* returns False and changes no alert.
C4_UnknownIdNotFound ==
    [][ret'.op = "acknowledge_alert" =>
          \A id \in AlertIds, u \in Users :
             ((\A i \in 1..Len(alerts) : alerts[i].alert_id # id) /\ acknowledge_alert(id, u))
                 => (~ret'.ok /\ alerts' = alerts)]_vars

\* A failed acknowledgment on a registry that holds an unacknowledged alert.
C4_Witness ==
    /\ ret.op = "acknowledge_alert"
    /\ ~ret.ok
    /\ \E i \in 1..Len(alerts) : ~alerts[i].acknowledged

\* C5: create_alert appends exactly one alert and returns it, and calls the
\* handlers registered for the alert's type, all of them and only them, in
\* registration order, whichever of the calls raise.
C5_CreateRunsAllHandlers ==
    [][/\ Len(alerts') \in {Len(alerts), Len(alerts) + 1}
       /\ (ret'.op = "create_alert" /\ alerts' # alerts) =>
             /\ alerts' = Append(alerts, LastAlert(alerts'))
             /\ ret'.ok
             /\ ret'.val = <<to_dict(LastAlert(alerts'))>>
             /\ ret'.invoked = HandlersFor(LastAlert(alerts').alert_type)
             /\ ret'.failed \subseteq 1..Len(ret'.invoked)]_vars

\* An alert created while the first of two handlers of its type raised and
\* another type has handlers of its own.
C5_Witness ==
    /\ ret.op = "create_alert"
    /\ Len(ret.invoked) = 2
    /\ 1 \in ret.failed
    /\ \E t \in DOMAIN alert_handlers :
          t # ret.val[1].alert_type /\ alert_handlers[t] # ret.invoked

\* C6: the food and room quality checks create a HIGH alert for every
\* score at or below 2, exactly 2 included, and none for a score above 2
\* (scores in tenths).
C6_QualityAlertAtOrBelowTwo ==
    [][\A s \in QualityScores :
          (check_food_quality_alert(s) \/ check_room_quality_alert(s)) =>
              ((s <= 20) <=>
                  (ret'.ok /\ Len(ret'.val) = 1 /\ ret'.val[1].severity = "HIGH"))]_vars

\* C7: check_burnout_alert and check_complaint_alert create an alert of the
\* input level's severity when the level is CRITICAL or HIGH; for any other
\* level they return nothing and leave the registry unchanged.
C7_Outcome(level, alert_type) ==
    IF level \in {"CRITICAL", "HIGH"}
       THEN /\ ret'.ok
            /\ Len(ret'.val) = 1
            /\ alerts' = Append(alerts, LastAlert(alerts'))
            /\ ret'.val[1] = to_dict(LastAlert(alerts'))
            /\ ret'.val[1].severity = level
            /\ ret'.val[1].alert_type = alert_type
       ELSE /\ ~ret'.ok
            /\ ret'.val = <<>>
            /\ alerts' = alerts

C7_BurnoutComplaintSeverity ==
    [][\A level \in LevelInputs :
          /\ check_burnout_alert(level) => C7_Outcome(level, "DOCTOR_BURNOUT")
          /\ check_complaint_alert(level) => C7_Outcome(level, "COMPLAINT_FILED")]_vars

\* A complaint check that returned nothing on a registry holding the HIGH
\* alert of an earlier burnout check.
C7_Witness ==
    /\ ret.op = "check_complaint_alert"
    /\ ~ret.ok
    /\ \E i \in 1..Len(alerts) :
          alerts[i].alert_type = "DOCTOR_BURNOUT" /\ alerts[i].severity = "HIGH"

\* C8: get_active_alerts(severity) returns exactly the unacknowledged alerts
\* (of that severity, when one is given), each exactly once, and never an
\* acknowledged one.
ExpectedActive(registry, severity) ==
    {i \in 1..Len(registry) :
        /\ ~registry[i].acknowledged
        /\ severity # NoneStr => registry[i].severity = severity}

IsListingOf(val, registry, S) ==
    /\ Len(val) = Cardinality(S)
    /\ \E f \in [1..Len(val) -> S] :
          /\ \A k, l \in 1..Len(val) : k # l => f[k] # f[l]
          /\ \A k \in 1..Len(val) : val[k] = to_dict(registry[f[k]])

C8_ActiveAlertsExact ==
    [][ret'.op = "get_active_alerts" =>
          \A sev \in AlertSeverity \cup {NoneStr} :
             get_active_alerts(sev) =>
                 /\ IsListingOf(ret'.val, alerts, ExpectedActive(alerts, sev))
                 /\ \A k \in 1..Len(ret'.val) : ~ret'.val[k].acknowledged]_vars

\* A listing of one alert from a registry that also holds an acknowledged one.
C8_Witness ==
    /\ ret.op = "get_active_alerts"
    /\ Len(ret.val) = 1
    /\ \E i \in 1..Len(alerts) : alerts[i].acknowledged

(***************************************************************************)
(* Properties of the sentiment fusion engine (scores in thousandths)       *)
(***************************************************************************)
Analysed == analysis.sentiment_label # "UNKNOWN"

\* C9: a reported overall_score above 0.3 carries the label POSITIVE, one
\* below -0.3 the label NEGATIVE, and a reported overall_score of at most 0
\* never carries POSITIVE.
C9_LabelMatchesReportedScore ==
    Analysed =>
        /\ analysis.overall_score > 300 => analysis.sentiment_label = "POSITIVE"
        /\ analysis.overall_score < -300 => analysis.sentiment_label = "NEGATIVE"
        /\ analysis.overall_score <= 0 => analysis.sentiment_label # "POSITIVE"

\* A rounded score above 0.3 for a text with a negative keyword and a
\* negative lexicon score.
C9_Witness ==
    /\ Analysed
    /\ analysis.overall_score > 300
    /\ analysis.fused % 10 # 0
    /\ analysis.neg_match
    /\ analysis.vader < 0

\* C10: with the three sub-signals in their ranges, the classifier's being
\* the substituted 0 when it is unavailable or fails, the fused score and
\* the reported overall_score lie in [-1, 1].
C10_FusedScoreInRange ==
    /\ analysis.fused \in -10000..10000
    /\ analysis.overall_score \in -1000..1000
    /\ analysis.transformer \in -1000..1000
    /\ (~transformer \/ text.raised) /\ Analysed => analysis.transformer = 0

\* Both ends: all three signals at an extreme, and the classifier
\* unavailable with the two others at an extreme.
C10_Witness ==
    /\ Analysed
    /\ \/ Abs(analysis.fused) = 10000
       \/ ~transformer /\ Abs(analysis.fused) = 7000


(***************************************************************************)
(* SpecTrends: reviews are recorded and trend reports taken while the      *)
(* clock advances within a day and by a day.                               *)
(***************************************************************************)
\* The analyses a caller passes: one per label, UNKNOWN being the fallback
\* analysis of submit_review.
TrendAnalyses ==
    {[overall_score |-> 500,  sentiment_label |-> "POSITIVE", keywords |-> <<>>],
     [overall_score |-> -500, sentiment_label |-> "NEGATIVE", keywords |-> <<>>],
     [overall_score |-> 0,    sentiment_label |-> "NEUTRAL",  keywords |-> <<>>],
     [overall_score |-> 0,    sentiment_label |-> "UNKNOWN",  keywords |-> <<>>]}

WindowDays == {1, 2}

QueryCategories == Categories \cup {NoneStr, "room"}

NextTrends ==
    \/ ElapseDay
    \/ /\ Len(reviews) < MaxReviews
       /\ \E a \in TrendAnalyses, c \in Categories : add_review_analysis(now, a, c)
    \/ \E days \in WindowDays, c \in QueryCategories : get_sentiment_trends(days, c)

SpecTrends == Init /\ [][NextTrends]_vars

(***************************************************************************)
(* Properties of the trend and clustering engine                           *)
(***************************************************************************)
\* No review of the ledger lies in the window of the given days and has
\* the category (any category when none is given).
NoReviewMatches(days, category) ==
    \A i \in 1..Len(reviews) :
        ~ /\ reviews[i].timestamp > now - Days(days)
          /\ (category = NoneStr \/ reviews[i].category = category)

\* C11: get_sentiment_trends over a window and category that match no
\* review, the empty ledger included, returns a report with total_reviews 0
\* and an empty trend_data that repeats the window and the category.
C11_EmptyFilterGivesZeroReport ==
    [][ret'.op = "get_sentiment_trends" =>
          \A days \in WindowDays, c \in QueryCategories :
             (NoReviewMatches(days, c) /\ get_sentiment_trends(days, c)) =>
                 /\ report'.total_reviews = 0
                 /\ report'.trend_data = <<>>
                 /\ report'.period_days = days
                 /\ report'.category = c]_vars

\* A report of nothing for a category of which the ledger holds a review
\* that has left the window.
C11_Witness ==
    /\ ret.op = "get_sentiment_trends"
    /\ report.total_reviews = 0
    /\ report.category # NoneStr
    /\ \E i \in 1..Len(reviews) : reviews[i].category = report.category

(***************************************************************************)
(* SpecDoctor: shifts are registered by the engine and logged by the       *)
(* route, burnout risk is computed over a window, the clock advances.      *)
(***************************************************************************)
Doctors == {"D1"}

\* Ids a caller may ask about: a doctor with shifts and one never seen.
DoctorIds == Doctors \cup {"D9"}

\* hours, patient_count, emergency_cases of a submitted shift.
ShiftInputs == {<<8, 0, 0>>, <<13, 0, 0>>, <<13, 0, 2>>, <<13, 10, 0>>, <<13, 40, 6>>}

BurnoutWindows == {1, default_days_window}

ShiftCount == Len(Get(duty_logs, "D1"))

NextDoctor ==
    \/ ElapseDay
    \/ /\ ShiftCount < MaxShifts
       /\ \E d \in Doctors, s \in ShiftInputs : register_duty_shift(d, s[1], s[2], s[3])
    \/ /\ ShiftCount < MaxShifts
       /\ \E d \in Doctors, s \in ShiftInputs : log_duty_shift(d, s[1], s[2], s[3])
    \/ \E d \in DoctorIds, w \in BurnoutWindows : calculate_burnout_risk(d, w)

SpecDoctor == Init /\ [][NextDoctor]_vars

(***************************************************************************)
(* Properties of the doctor risk engine                                    *)
(***************************************************************************)
Computed == ret.op = "calculate_burnout_risk" /\ DOMAIN report.metrics # {}

\* Totals over n2 shifts whose averages the comparison ranges over.
TotalGrid == {0, 6, 8, 12, 13, 20, 26, 40, 60}

\* a/n <= a2/n2
AvgLeq(a, n, a2, n2) == a * n2 <= a2 * n

AvgEq(a, n, a2, n2) == a * n2 = a2 * n

\* C12: the burnout score is non-decreasing in each of the average hours,
\* the average patients and the average emergencies per shift, the other
\* two held fixed: a computed report's score is at most the score of every
\* workload that is at least as high in one average and equal in the others.
C12_BurnoutMonotone ==
    Computed =>
        LET m == report.metrics
            n == m.total_shifts_analyzed
        IN  \A n2 \in 1..(MaxShifts + 1), H2 \in TotalGrid, P2 \in TotalGrid, E2 \in TotalGrid :
               ( \/ /\ AvgLeq(m.total_hours, n, H2, n2)
                    /\ AvgEq(m.total_patients, n, P2, n2)
                    /\ AvgEq(m.total_emergency_cases, n, E2, n2)
                 \/ /\ AvgEq(m.total_hours, n, H2, n2)
                    /\ AvgLeq(m.total_patients, n, P2, n2)
                    /\ AvgEq(m.total_emergency_cases, n, E2, n2)
                 \/ /\ AvgEq(m.total_hours, n, H2, n2)
                    /\ AvgEq(m.total_patients, n, P2, n2)
                    /\ AvgLeq(m.total_emergency_cases, n, E2, n2) )
               => report.burnout_score * n2 <= BurnoutScore(H2, P2, E2, n2) * n

\* A report computed from two shifts whose average hours exceed 12 while
\* the patients and emergencies stay below their caps.
C12_Witness ==
    /\ Computed
    /\ report.metrics.total_shifts_analyzed = 2
    /\ report.metrics.total_hours > 24
    /\ report.metrics.total_patients \in 1..59
    /\ report.metrics.total_emergency_cases \in 1..9

\* No shift of the doctor lies in the window of days_window days.
NoShiftInWindow(doctor_id, days_window) ==
    \A i \in 1..Len(Get(duty_logs, doctor_id)) :
        ~(Get(duty_logs, doctor_id)[i].timestamp > now - Days(days_window))

\* C13 as stated: whenever no shift of the doctor falls inside the window,
\* whether the doctor has no shifts at all or only older ones,
\* calculate_burnout_risk returns the NO_DATA report with risk score 0.
C13_NoDataWheneverWindowEmpty ==
    [][ret'.op = "calculate_burnout_risk" =>
          \A d \in DoctorIds, w \in BurnoutWindows :
             (NoShiftInWindow(d, w) /\ calculate_burnout_risk(d, w)) =>
                 /\ report'.risk_level = "NO_DATA"
                 /\ report'.risk_score = 0]_vars

\* C13 amended: calculate_burnout_risk returns NO_DATA with risk score 0
\* and no metrics for a doctor without any shift, and LOW with risk score 0
\* and no metrics for a doctor whose shifts all lie before the window; a
\* report computed from shifts of the window carries metrics and a level
\* other than NO_DATA, so it differs from both.
C13_EmptyWindowReports ==
    [][ret'.op = "calculate_burnout_risk" =>
          \A d \in DoctorIds, w \in BurnoutWindows :
             calculate_burnout_risk(d, w) =>
                 /\ report'.doctor_id = d
                 /\ Get(duty_logs, d) = <<>> =>
                       /\ report'.risk_level = "NO_DATA"
                       /\ report'.risk_score = 0
                       /\ DOMAIN report'.metrics = {}
                 /\ (Get(duty_logs, d) # <<>> /\ NoShiftInWindow(d, w)) =>
                       /\ report'.risk_level = "LOW"
                       /\ report'.risk_score = 0
                       /\ DOMAIN report'.metrics = {}
                 /\ ~NoShiftInWindow(d, w) =>
                       /\ report'.risk_level \in {"LOW", "MODERATE", "HIGH", "CRITICAL"}
                       /\ DOMAIN report'.metrics # {}]_vars

\* The report for a doctor whose only shifts have left the window.
C13_Witness ==
    /\ ret.op = "calculate_burnout_risk"
    /\ report.risk_level = "LOW"
    /\ DOMAIN report.metrics = {}
    /\ Get(duty_logs, report.doctor_id) # <<>>

\* The shifts of the doctor in the default window, their number and totals.
Recent(logs, doctor_id) == WindowOf(Get(logs, doctor_id), default_days_window, now)

TotalOf(shifts, Field(_)) == Sum([i \in 1..Len(shifts) |-> Field(shifts[i])])

HoursOf(s) == s.hours

\* The shifts average more than 12 hours per shift.
AveragesOverTwelve(shifts) == TotalOf(shifts, HoursOf) > 12 * Len(shifts)

\* The exact burnout score of the shifts, in units of 1/(6000 * Len(shifts)).
ScoreOf(shifts) ==
    BurnoutScore(TotalOf(shifts, HoursOf),
                 TotalOf(shifts, LAMBDA s : s.patient_count),
                 TotalOf(shifts, LAMBDA s : s.emergency_cases),
                 Len(shifts))

\* The step created one DOCTOR_BURNOUT alert of a severity in sevs.
BurnoutAlertCreated(sevs) ==
    /\ ret'.ok
    /\ Len(ret'.val) = 1
    /\ alerts' = Append(alerts, LastAlert(alerts'))
    /\ ret'.val[1] = to_dict(LastAlert(alerts'))
    /\ ret'.val[1].alert_type = "DOCTOR_BURNOUT"
    /\ ret'.val[1].severity \in sevs

\* C14 as stated: after a duty shift is logged for a doctor whose shifts of
\* the last 30 days average more than 12 hours per shift, the burnout check
\* of the submission creates a DOCTOR_BURNOUT alert of severity CRITICAL or
\* HIGH, whatever the patient and emergency counts.
C14_AlertWhenOverTwelveHours ==
    [][(ret'.op = "log_duty_shift" /\ duty_logs' # duty_logs) =>
          (AveragesOverTwelve(Recent(duty_logs', report'.doctor_id))
              => BurnoutAlertCreated({"CRITICAL", "HIGH"}))]_vars

\* C14 amended: after a duty shift is logged, the burnout check of the
\* submission creates a DOCTOR_BURNOUT alert exactly when the burnout score
\* of the doctor's shifts of the last 30 days exceeds 0.5: CRITICAL above
\* 0.7, HIGH above 0.5 (at a score of exactly 0.5 or 0.7 the rounding of
\* the sum decides).  An average of more than 12 hours per shift adds 0.4,
\* so it leads to an alert only together with patient and emergency
\* factors above 0.1; below that none is created and the registry is
\* unchanged.
C14_AlertWhenScoreAboveHalf ==
    [][(ret'.op = "log_duty_shift" /\ duty_logs' # duty_logs) =>
          LET shifts == Recent(duty_logs', report'.doctor_id)
              n      == Len(shifts)
              score  == ScoreOf(shifts)
          IN  /\ n >= 1
              /\ score > 4200 * n => BurnoutAlertCreated({"CRITICAL"})
              /\ score = 4200 * n => BurnoutAlertCreated({"CRITICAL", "HIGH"})
              /\ (score > 3000 * n /\ score < 4200 * n) => BurnoutAlertCreated({"HIGH"})
              /\ score = 3000 * n =>
                    (BurnoutAlertCreated({"HIGH"}) \/ (~ret'.ok /\ alerts' = alerts))
              /\ score < 3000 * n => (~ret'.ok /\ ret'.val = <<>> /\ alerts' = alerts)]_vars

\* A logged shift that raised no alert although the doctor's shifts average
\* more than 12 hours, after an earlier shift that raised one.
C14_Witness ==
    /\ ret.op = "log_duty_shift"
    /\ ~ret.ok
    /\ AveragesOverTwelve(Recent(duty_logs, report.doctor_id))
    /\ \E i \in 1..Len(alerts) : alerts[i].alert_type = "DOCTOR_BURNOUT"

(***************************************************************************)
(* SpecFacility: food and room quality reviews are submitted and the two   *)
(* trend analyses taken while the days pass.                               *)
(***************************************************************************)
Rooms == {"R1", "R7"}

\* Scores the routes accept (1 <= score <= 5), in tenths.
FacilityScores == {10, 20, 21}

\* The aspects map and the comments of a submission.
Contents == {[aspects |-> <<>>, comments |-> ""],
             [aspects |-> [cleanliness |-> 50], comments |-> "filthy"]}

FacilityCount == Cardinality(Entries(food_reviews)) + Cardinality(Entries(room_reviews))

NextFacility ==
    \/ ElapseDay
    \/ /\ FacilityCount < MaxFacilityReviews
       /\ \E c \in Contents : submit_food_quality_review(now, 20, c.aspects, c.comments)
    \/ /\ FacilityCount < MaxFacilityReviews
       /\ \E room \in Rooms, s \in FacilityScores, c \in Contents :
             submit_room_quality_review(now, room, s, c.aspects, c.comments)
    \/ \E days \in WindowDays : analyze_food_quality_trends(days)
    \/ \E days \in WindowDays : analyze_room_quality_trends(days)

SpecFacility == Init /\ [][NextFacility]_vars

(***************************************************************************)
(* Properties of the facility engine                                       *)
(***************************************************************************)
\* C15: submit_room_quality_review with a cleanliness score of at most 2,
\* score 1 included, returns an alert signal of type ROOM_QUALITY_CRITICAL
\* for the room, whatever the aspects and comments are, and appends the
\* review to the ledger of the room, leaving the other rooms as they were.
C15_LowScoreSignalsAndRecords ==
    [][ret'.op = "submit_room_quality_review" =>
          \A id \in 0..Days(MaxDays + 1), room \in Rooms, s \in FacilityScores, c \in Contents :
             (s <= 20 /\ submit_room_quality_review(id, room, s, c.aspects, c.comments)) =>
                 /\ Len(report'.alert) = 1
                 /\ report'.alert[1].type = "ROOM_QUALITY_CRITICAL"
                 /\ report'.alert[1].room_id = room
                 /\ DOMAIN room_reviews' = DOMAIN room_reviews \cup {room}
                 /\ Len(room_reviews'[room]) = Len(Get(room_reviews, room)) + 1
                 /\ SubSeq(room_reviews'[room], 1, Len(Get(room_reviews, room)))
                       = Get(room_reviews, room)
                 /\ LET last == room_reviews'[room][Len(room_reviews'[room])]
                    IN  /\ last.room_id = room
                        /\ last.review_id = id
                        /\ last.cleanliness_score = s
                        /\ last.aspects = c.aspects
                        /\ last.comments = c.comments
                 /\ \A r \in DOMAIN room_reviews \ {room} :
                       room_reviews'[r] = room_reviews[r]]_vars

\* A submission with score 1, aspects and comments given, while another
\* room has a review.
C15_Witness ==
    /\ ret.op = "submit_room_quality_review"
    /\ Len(report.alert) = 1
    /\ LET last == room_reviews[report.room_id][Len(room_reviews[report.room_id])]
       IN  last.cleanliness_score = 10 /\ last.comments # ""
    /\ \E r \in DOMAIN room_reviews : r # report.room_id

(***************************************************************************)
(* SpecWait: a ledger of NEGATIVE reviews that all carry the keyword       *)
(* "wait" is built up and clustered.                                       *)
(***************************************************************************)
\* NEGATIVE analyses whose keywords have "wait": alone, with another
\* keyword after or before it, and twice.
WaitAnalyses ==
    [overall_score : {-500}, sentiment_label : {"NEGATIVE"},
     keywords : {<<"wait">>, <<"wait", "rude">>, <<"dirty", "wait">>, <<"wait", "wait">>}]

\* The id of the next review: a new one, review ids being taken from the
\* clock in milliseconds, or that of the review before when both fall into
\* the same millisecond.
FreshId == Len(reviews) + 1

RepeatedId == IF reviews = <<>> THEN 1 ELSE reviews[Len(reviews)].review_id

NextWait ==
    \/ /\ Len(reviews) < MaxWaitReviews
       /\ \E a \in WaitAnalyses : add_review_analysis(FreshId, a, "general")
    \/ /\ Len(reviews) < MaxWaitReviews
       /\ \E a \in WaitAnalyses :
             a.keywords = <<"wait">> /\ add_review_analysis(RepeatedId, a, "general")
    \/ cluster_issues(5)

SpecWait == Init /\ [][NextWait]_vars

\* The ledger of C16: 6 reviews, all NEGATIVE, all with the keyword "wait",
\* no other keyword in two of them.
Range(seq) == {seq[i] : i \in 1..Len(seq)}

SixWaitReviews ==
    /\ Len(reviews) = 6
    /\ \A i \in 1..6 :
          /\ reviews[i].sentiment_label = "NEGATIVE"
          /\ "wait" \in Range(reviews[i].keywords)
    /\ \A i, j \in 1..6 :
          i # j => Range(reviews[i].keywords) \cap Range(reviews[j].keywords) = {"wait"}

LedgerKeywords == UNION {Range(reviews[i].keywords) : i \in 1..Len(reviews)}

LedgerIds == {reviews[i].review_id : i \in 1..Len(reviews)}

NoKeywordTwice ==
    \A i \in 1..Len(reviews) :
        Cardinality(Range(reviews[i].keywords)) = Len(reviews[i].keywords)

WaitRecommendation == "Review process efficiency and resource allocation"

ClusterAnalyses ==
    [overall_score : {0}, sentiment_label : {"NEGATIVE", "POSITIVE", "UNKNOWN"},
     keywords : {<<>>, <<"wait">>, <<"waitstaff", "wait">>}]

ClusterSizes == {1, 5}

NextClusters ==
    \/ /\ Len(reviews) < MaxClusterReviews
       /\ \E a \in ClusterAnalyses : add_review_analysis(FreshId, a, "general")
    \/ \E m \in ClusterSizes : cluster_issues(m)

SpecClusters == Init /\ [][NextClusters]_vars

IsNegative(i) == reviews[i].sentiment_label = "NEGATIVE"

\* The occurrences of a keyword in the keyword lists of NEGATIVE reviews.
OccurrencesInNegative(k) ==
    Cardinality({p \in UNION {{<<i, j>> : j \in 1..Len(reviews[i].keywords)} :
                                  i \in 1..Len(reviews)} :
                    IsNegative(p[1]) /\ reviews[p[1]].keywords[p[2]] = k})

\* C17: cluster_issues returns an empty cluster list when the ledger holds
\* fewer than 3 reviews or no NEGATIVE review; otherwise it builds the
\* clusters from the NEGATIVE reviews only: each cluster's keyword occurs
\* in a NEGATIVE review, its frequency counts the occurrences in NEGATIVE
\* reviews and its related reviews are NEGATIVE ones, and there is a
\* cluster as soon as a NEGATIVE review has a keyword.
C17_DegenerateLedgersAndNegativeOnly ==
    [][ret'.op = "cluster_issues" =>
          \A m \in ClusterSizes :
             cluster_issues(m) =>
                 /\ (Len(reviews) < 3 \/ \A i \in 1..Len(reviews) : ~IsNegative(i))
                       => report'.clusters = <<>>
                 /\ \A idx \in 1..Len(report'.clusters) :
                       LET c == report'.clusters[idx]
                       IN  /\ c.frequency >= 1
                           /\ c.frequency = OccurrencesInNegative(c.primary_issue)
                           /\ \A k \in 1..Len(c.related_reviews) :
                                 \E i \in 1..Len(reviews) :
                                    /\ IsNegative(i)
                                    /\ reviews[i].review_id = c.related_reviews[k]
                 /\ ( /\ Len(reviews) >= 3
                      /\ \E i \in 1..Len(reviews) :
                            IsNegative(i) /\ reviews[i].keywords # <<>> )
                       => Len(report'.clusters) >= 1]_vars

\* Clusters from a ledger in which a review that is not NEGATIVE carries a
\* keyword that no cluster is about.
C17_Witness ==
    /\ ret.op = "cluster_issues"
    /\ Len(report.clusters) >= 1
    /\ \E i \in 1..Len(reviews) :
          /\ ~IsNegative(i)
          /\ \E k \in Range(reviews[i].keywords) :
                \A idx \in 1..Len(report.clusters) : report.clusters[idx].primary_issue # k

(***************************************************************************)
(* SpecLedgers: every operation that appends to a ledger and every query,  *)
(* on ledgers that hold MaxEntries entries in all.                         *)
(***************************************************************************)
TotalEntries ==
    Len(reviews) + Len(alerts)
        + Cardinality(Entries(duty_logs)) + Cardinality(Entries(complaints))
        + Cardinality(Entries(sentiment_scores))
        + Cardinality(Entries(food_reviews)) + Cardinality(Entries(room_reviews))

NextLedgers ==
    \/ /\ TotalEntries < MaxEntries
       /\ \/ \E a \in WaitAnalyses : add_review_analysis(FreshId, a, "general")
          \/ \E d \in Doctors : register_duty_shift(d, 13, 40, 6)
          \/ \E d \in Doctors : file_complaint(d, "behaviour", "CRITICAL")
          \/ \E d \in Doctors, score \in {-500, 500} : track_sentiment(d, score)
          \/ submit_food_quality_review(now, 20, <<>>, NoneStr)
          \/ submit_room_quality_review(now, "R1", 10, <<>>, NoneStr)
          \/ create_alert("SYSTEM_ERROR", "HIGH")
    \/ \E id \in AlertIds : acknowledge_alert(id, "admin")
    \/ get_sentiment_trends(1, NoneStr)
    \/ get_emotion_analysis(NoneStr, 1)
    \/ cluster_issues(5)
    \/ \E d \in DoctorIds : calculate_burnout_risk(d, 1)
    \/ \E d \in DoctorIds : get_doctor_rating(d)
    \/ \E d \in DoctorIds : get_complaint_history(d)
    \/ \E d \in DoctorIds : get_doctor_performance_dashboard(d)
    \/ analyze_food_quality_trends(1)
    \/ analyze_room_quality_trends(1)
    \/ get_active_alerts(NoneStr)
    \/ get_alert_statistics(1)
    \/ get_dashboard_overview

SpecLedgers == Init /\ [][NextLedgers]_vars

(***************************************************************************)
(* Properties of the ledgers                                               *)
(***************************************************************************)
IsPrefix(s, t) == Len(s) <= Len(t) /\ SubSeq(t, 1, Len(s)) = s

\* Every key of d is a key of e with a list that extends the one in d.
GrowsTo(d, e) ==
    /\ DOMAIN d \subseteq DOMAIN e
    /\ \A k \in DOMAIN d : IsPrefix(d[k], e[k])

\* The fields of an alert that acknowledgment does not write.
Issued(a) == [alert_id |-> a.alert_id, alert_type |-> a.alert_type,
              severity |-> a.severity, created_at |-> a.created_at]

QueryOps ==
    {"get_sentiment_trends", "get_emotion_analysis", "cluster_issues",
     "calculate_burnout_risk", "get_doctor_rating", "get_complaint_history",
     "get_doctor_performance_dashboard", "analyze_food_quality_trends",
     "analyze_room_quality_trends", "get_active_alerts", "get_alert_statistics",
     "get_dashboard_overview"}

ledgers == <<reviews, duty_logs, complaints, sentiment_scores,
             food_reviews, room_reviews, alerts>>

\* C18: every ledger only grows by appending at the end: through every
\* step the earlier contents stay an unchanged prefix (for an alert, all
\* but its acknowledgment fields), and a query leaves every ledger as it
\* was, keys included, also when asked about an id never seen.
C18_LedgersAppendOnly ==
    [][/\ IsPrefix(reviews, reviews')
       /\ GrowsTo(duty_logs, duty_logs')
       /\ GrowsTo(complaints, complaints')
       /\ GrowsTo(sentiment_scores, sentiment_scores')
       /\ GrowsTo(food_reviews, food_reviews')
       /\ GrowsTo(room_reviews, room_reviews')
       /\ Len(alerts) <= Len(alerts')
       /\ \A i \in 1..Len(alerts) : Issued(alerts'[i]) = Issued(alerts[i])
       /\ ret'.op \in QueryOps => ledgers' = ledgers]_vars

\* The performance dashboard of a doctor never seen, taken while the
\* ledgers of another doctor hold a shift and a complaint.
C18_Witness ==
    /\ ret.op = "get_doctor_performance_dashboard"
    /\ report.doctor_id \notin DOMAIN duty_logs \cup DOMAIN complaints
    /\ report.burnout_analysis.risk_level = "NO_DATA"
    /\ DOMAIN duty_logs # {}
    /\ DOMAIN complaints # {}

(***************************************************************************)
(* SpecThreads: review submissions and complaints arriving while           *)
(* cluster_issues and the dashboard overview are being computed.           *)
(***************************************************************************)
NextThreads ==
    \/ /\ Len(reviews) < MaxThreadReviews
       /\ \E a \in {[overall_score |-> 500, sentiment_label |-> "POSITIVE",
                      keywords |-> <<>>],
                     [overall_score |-> -500, sentiment_label |-> "NEGATIVE",
                      keywords |-> <<"wait">>]} :
             add_review_analysis(FreshId, a, "general")
    \/ /\ Cardinality(Entries(complaints)) < MaxEntries
       /\ \E d \in Doctors : file_complaint_thread(d, "behaviour", "LOW")
    \/ cluster_issues_thread(5)
    \/ get_dashboard_overview

SpecThreads == Init /\ [][NextThreads]_vars

\* C19: appends are indivisible also when requests run concurrently: no
\* ledger is ever seen with an append half applied (a doctor entered in the
\* complaints with no complaint), the overview counts no doctor with
\* complaints whose complaint it does not count, and the report of
\* cluster_issues is the one of the ledger as it stood at one moment, with
\* every review either counted throughout or not at all.
C19_AppendsIndivisible ==
    /\ \A d \in DOMAIN complaints : complaints[d] # <<>>
    /\ ret.op = "get_dashboard_overview" =>
          report.doctor_summary.total_complaints <= report.doctor_summary.open_complaints
    /\ ret.op = "cluster_issues" =>
          \E n \in 0..Len(reviews) :
             report = ClusterReportOf(n, NegativeReviews(SubSeq(reviews, 1, n)), n, 5)

\* The double overall_score lies in [-0.3, 0.3]: neither test on it holds.
InBand ==
    /\ analysis.fused < 3000 \/ (analysis.fused = 3000 /\ analysis.fp <= 0)
    /\ analysis.fused > -3000 \/ (analysis.fused = -3000 /\ analysis.fp >= 0)

\* C20: with the fused score in [-0.3, 0.3] the label is NEGATIVE exactly
\* when a negative keyword matches and the lexicon compound score or the
\* polarity is below 0, and NEUTRAL otherwise, so also for a keyword match
\* with both sub-signals non-negative; a fused score above 0.3 gives
\* POSITIVE even when the override condition holds.
C20_OverrideOnlyInBand ==
    Analysed =>
        /\ InBand =>
              /\ analysis.sentiment_label = "NEGATIVE"
                    <=> (analysis.neg_match /\ (analysis.vader < 0 \/ analysis.textblob < 0))
              /\ analysis.sentiment_label \in {"NEGATIVE", "NEUTRAL"}
        /\ (analysis.fused > 3000 /\ analysis.neg_match /\ analysis.vader < 0)
              => analysis.sentiment_label = "POSITIVE"

\* A text with a negative keyword whose lexicon score and polarity are both
\* non-negative, fused in the band by a negative classifier score: NEUTRAL.
C20_Witness ==
    /\ Analysed
    /\ InBand
    /\ analysis.neg_match
    /\ analysis.vader >= 0
    /\ analysis.textblob >= 0
    /\ analysis.fused < 0
    /\ analysis.sentiment_label = "NEUTRAL"

(***************************************************************************)
(* SpecRisk: one doctor working up to MaxRiskShifts heavy shifts, whose    *)
(* burnout score comes to lie next to the CRITICAL threshold.              *)
(***************************************************************************)
NextRisk ==
    \/ /\ ShiftCount < MaxRiskShifts
       /\ \E s \in {<<12, 6, 5>>, <<10, 5, 5>>} : register_duty_shift("D1", s[1], s[2], s[3])
    \/ \E d \in DoctorIds : calculate_burnout_risk(d, default_days_window)
    \/ ElapseDay

SpecRisk == Init /\ [][NextRisk]_vars

\* The level the thresholds give to a reported risk_score, in thousandths.
LevelOfReported(risk_score) ==
    IF risk_score > 700 THEN "CRITICAL"
    ELSE IF risk_score > 500 THEN "HIGH"
    ELSE IF risk_score > 300 THEN "MODERATE"
    ELSE "LOW"

\* C21: in a burnout report computed from in-window shifts the reported
\* risk_level is the level of the reported risk_score: CRITICAL iff above
\* 0.7, HIGH iff above 0.5 and at most 0.7, MODERATE iff above 0.3 and at
\* most 0.5, LOW otherwise; and the reported risk_score lies in [0, 1].
C21_LevelAgreesWithReportedScore ==
    Computed =>
        /\ report.risk_level = LevelOfReported(report.risk_score)
        /\ report.risk_score \in 0..1000

\* The places <<i, j>> of the ledger where a NEGATIVE review lists keyword k.
PlacesInNegative(k) ==
    {p \in UNION {{<<i, j>> : j \in 1..Len(reviews[i].keywords)} : i \in 1..Len(reviews)} :
        IsNegative(p[1]) /\ reviews[p[1]].keywords[p[2]] = k}

\* Keyword k is met before keyword l on reading the NEGATIVE reviews in
\* ledger order.
FirstSeenBefore(k, l) ==
    \E p \in PlacesInNegative(k) :
       \A q \in PlacesInNegative(l) : p[1] < q[1] \/ (p[1] = q[1] /\ p[2] < q[2])

SeverityOfFrequency(frequency) ==
    IF frequency >= 10 THEN "CRITICAL"
    ELSE IF frequency >= 5 THEN "HIGH"
    ELSE IF frequency >= 3 THEN "MEDIUM"
    ELSE "LOW"

\* C23: in every cluster cluster_issues returns, frequency is the number of
\* related reviews, so the severity (CRITICAL at 10 or more, HIGH at 5,
\* MEDIUM at 3, else LOW) is the one of the reported frequency, also when
\* a review repeats a keyword or two reviews carry the same review_id.
C23_FrequencyCountsRelatedReviews ==
    ret.op = "cluster_issues" =>
        \A idx \in 1..Len(report.clusters) :
           /\ report.clusters[idx].frequency = Len(report.clusters[idx].related_reviews)
           /\ report.clusters[idx].severity = SeverityOfFrequency(report.clusters[idx].frequency)

\* The reviews of the ledger (by index) that a trend query over the given
\* days and category selects.
Filtered(days, category) ==
    {i \in 1..Len(reviews) :
        /\ reviews[i].timestamp > now - Days(days)
        /\ (category = NoneStr \/ reviews[i].category = category)}

\* C24: in a non-empty trend report trend_data has exactly one entry per
\* distinct calendar date of the filtered reviews, in strictly ascending
\* date order; each entry's positive + negative + neutral is its
\* total_reviews, the number of filtered reviews of its date; and the
\* entries' total_reviews add up to the report's total_reviews.
C24_OneEntryPerDateAscending ==
    [][ret'.op = "get_sentiment_trends" =>
          \A days \in WindowDays, c \in QueryCategories :
             (Filtered(days, c) # {} /\ get_sentiment_trends(days, c)) =>
                 LET td == report'.trend_data
                 IN  /\ {td[k].date : k \in 1..Len(td)}
                            = {DateOf(reviews[i].timestamp) : i \in Filtered(days, c)}
                     /\ \A k, l \in 1..Len(td) : k < l => td[k].date < td[l].date
                     /\ \A k \in 1..Len(td) :
                           /\ td[k].positive + td[k].negative + td[k].neutral
                                 = td[k].total_reviews
                           /\ td[k].total_reviews
                                 = Cardinality({i \in Filtered(days, c) :
                                                   DateOf(reviews[i].timestamp) = td[k].date})
                     /\ Sum([k \in 1..Len(td) |-> td[k].total_reviews]) = report'.total_reviews
                     /\ report'.total_reviews = Cardinality(Filtered(days, c))]_vars

\* A report over two reviews of different dates: two entries of one review.
C24_Witness ==
    /\ ret.op = "get_sentiment_trends"
    /\ report.total_reviews = 2
    /\ Len(report.trend_data) = 2
    /\ report.trend_data[1].date < report.trend_data[2].date

\* C25: the per-day counts and the overall distribution of one trend
\* report classify every filtered review alike: the reviews counted as
\* neutral over trend_data are those neutral_percentage is taken of, and
\* the positive, negative and neutral shares account for every review of
\* the filtered set, reviews recorded with label UNKNOWN included.
C25_DaysAndDistributionAgree ==
    (ret.op = "get_sentiment_trends" /\ report.total_reviews > 0) =>
        LET td == report.trend_data
            d  == report.sentiment_distribution
        IN  /\ Sum([k \in 1..Len(td) |-> td[k].positive]) = d.positive
            /\ Sum([k \in 1..Len(td) |-> td[k].negative]) = d.negative
            /\ Sum([k \in 1..Len(td) |-> td[k].neutral]) = d.neutral
            /\ d.positive + d.negative + d.neutral = report.total_reviews

(***************************************************************************)
(* SpecRating: sentiment samples of a doctor are tracked and rated.  The   *)
(* samples are overall scores, in thousandths within [-1, 1], at and next  *)
(* to the edges of the rating bins.                                        *)
(***************************************************************************)
NextRating ==
    \/ /\ Len(Get(sentiment_scores, "D1")) < MaxSamples
       /\ \E score \in {-1000, -501, -500, -1, 0, 499, 999, 1000} : track_sentiment("D1", score)
    \/ \E d \in DoctorIds : get_doctor_rating(d)

SpecRating == Init /\ [][NextRating]_vars

\* C26: for a doctor with at least one tracked sample, all in [-1, 1],
\* get_doctor_rating returns a rating in [1, 5]; every key of
\* rating_distribution is an integer in 1..5, a sample of score exactly 1
\* counting in bucket 5; and the counts of the histogram add up to
\* total_reviews, the number of samples.
C26_RatingAndHistogramInRange ==
    [][ret'.op = "get_doctor_rating" =>
          \A d \in DoctorIds :
             LET ss == IF d \in DOMAIN sentiment_scores THEN sentiment_scores[d] ELSE <<>>
                 h  == report'.rating_distribution
             IN  (/\ ss # <<>>
                  /\ \A i \in 1..Len(ss) : ss[i].score \in -1000..1000
                  /\ get_doctor_rating(d))
                 => /\ report'.rating \in 100..500
                    /\ DOMAIN h \subseteq 1..5
                    /\ (\E i \in 1..Len(ss) : ss[i].score = 1000) => 5 \in DOMAIN h
                    /\ \A b \in DOMAIN h : h[b] >= 1
                    /\ Sum([k \in 1..Cardinality(DOMAIN h) |-> h[SortedSeq(DOMAIN h)[k]]])
                          = report'.total_reviews
                    /\ report'.total_reviews = Len(ss)]_vars

\* A rating over two samples, one of score exactly 1 and one of score -1:
\* buckets 5 and 1.
C26_Witness ==
    /\ ret.op = "get_doctor_rating"
    /\ report.total_reviews = 2
    /\ DOMAIN report.rating_distribution = {1, 5}
    /\ report.rating = 300

(***************************************************************************)
(* SpecPerformance: complaints, samples and shifts of a doctor are         *)
(* recorded and the performance dashboard is computed, for up to           *)
(* MaxComplaints complaints.                                               *)
(***************************************************************************)
NextPerformance ==
    \/ /\ Len(Get(complaints, "D1")) < MaxComplaints
       /\ file_complaint("D1", "behaviour", "LOW")
    \/ /\ Len(Get(sentiment_scores, "D1")) < MaxSamples
       /\ \E score \in {-1000, 1000} : track_sentiment("D1", score)
    \/ /\ ShiftCount < MaxShifts
       /\ \E s \in {<<8, 0, 0>>, <<13, 40, 6>>} : register_duty_shift("D1", s[1], s[2], s[3])
    \/ \E d \in DoctorIds : get_doctor_performance_dashboard(d)

SpecPerformance == Init /\ [][NextPerformance]_vars

\* C27: with the rating and the burnout risk of the report held fixed, the
\* performance score is the score without complaints less 1 point for
\* each complaint up to 20, and less 20 points beyond; and it lies within
\* [0, 100], for a doctor with no reviews, no shifts and no complaints too.
\* Scores are in hundredths of a point.
C27_ComplaintPenaltyCapped ==
    [][ret'.op = "get_doctor_performance_dashboard" =>
          \A d \in DoctorIds :
             get_doctor_performance_dashboard(d) =>
                 LET count == IF d \in DOMAIN complaints THEN Len(complaints[d]) ELSE 0
                     clean == 10 * report'.patient_rating.rating
                                 + 3 * (1000 - report'.burnout_analysis.risk_score) + 2000
                 IN  /\ report'.overall_performance_score
                           = clean - 100 * (IF count <= 20 THEN count ELSE 20)
                     /\ report'.overall_performance_score \in 0..10000
                     /\ (d \notin DOMAIN complaints \cup DOMAIN duty_logs \cup DOMAIN sentiment_scores)
                           => report'.overall_performance_score = 5000]_vars

\* The dashboard of a doctor with 21 complaints, a rating and a computed
\* burnout risk.
C27_Witness ==
    /\ ret.op = "get_doctor_performance_dashboard"
    /\ report.complaint_analysis.total_complaints = 21
    /\ report.patient_rating.total_reviews > 0
    /\ report.burnout_analysis.risk_level = "CRITICAL"

\* C28: no two alerts of the registry share an alert_id, whatever the
\* timing of the create_alert calls, so that acknowledge_alert(id) reaches
\* exactly the alert the id was issued for: an alert acknowledged by a
\* step is the only alert carrying the id of the call.
C28_AlertIdsUnique ==
    [][/\ \A i, j \in 1..Len(alerts') :
             i # j => alerts'[i].alert_id # alerts'[j].alert_id
       /\ \A id \in AlertIds, u \in Users :
             (ret'.op = "acknowledge_alert" /\ ret'.ok /\ acknowledge_alert(id, u)) =>
                 \A i \in 1..Len(alerts) :
                    alerts[i].alert_id = id => alerts'[i].acknowledged]_vars

\* The burnout risk level of a doctor as calculate_burnout_risk gives it
\* now, over the default window.
CurrentLevel(doctor_id) ==
    BurnoutReport(duty_logs, doctor_id, default_days_window, now, 0).risk_level

\* C29: the overview reflects the doctor ledgers: critical_alerts has a
\* BURNOUT_CRITICAL entry for every doctor whose current burnout risk level
\* is CRITICAL, and burnout_risk_doctors is the number of doctors whose
\* current level is HIGH or CRITICAL, after any duty-shift registrations.
C29_OverviewReflectsBurnout ==
    [][(ret'.op = "get_dashboard_overview" /\ get_dashboard_overview) =>
          /\ \A d \in DOMAIN duty_logs :
                CurrentLevel(d) = "CRITICAL" =>
                    \E a \in report'.critical_alerts :
                       a.type = "BURNOUT_CRITICAL" /\ a.doctor_id = d
          /\ report'.doctor_summary.burnout_risk_doctors
                = Cardinality({d \in DOMAIN duty_logs :
                                  CurrentLevel(d) \in {"HIGH", "CRITICAL"}})]_vars


(***************************************************************************)
(* SpecFeedback: reviews are submitted while the background loop and the   *)
(* admin endpoint reprocess the feedback log, and the clock advances.      *)
(***************************************************************************)
\* The texts submitted: one of praise and one of complaint.
ReviewTexts ==
    {[compound |-> 1000, polarity |-> 1000, raised |-> FALSE, label |-> "positive",
      score |-> 1000, neg_match |-> FALSE, fp |-> 0],
     [compound |-> -1000, polarity |-> -1000, raised |-> FALSE, label |-> "negative",
      score |-> 1000, neg_match |-> TRUE, fp |-> 0]}

NextFeedback ==
    \/ Tick
    \/ \E t \in ReviewTexts, raised \in BOOLEAN, d \in {NoneStr, "D1"} :
          submit_review(t, raised, d)
    \/ \E c \in Callers : reprocess_pending_feedback_once(c)

SpecFeedback == Init /\ [][NextFeedback]_vars

\* What identifies the entries of a log, in the order of the file.
Submitted(log) ==
    [i \in 1..Len(log) |->
        [review_id   |-> log[i].review_id,
         created_at  |-> log[i].created_at,
         review_text |-> log[i].review_text]]

\* C30: no entry of the feedback log is ever lost.  Whatever submit_review
\* and reprocess_pending_feedback_once do, and however their steps
\* interleave, the log after a step holds every entry it held before the
\* step, in the same order, and after a submit_review the new entry as
\* well; only the analysis fields of an entry change.
C30_SubmittedEntryNeverLost ==
    [][/\ IsPrefix(Submitted(feedback_log), Submitted(feedback_log'))
       /\ ret'.op = "submit_review" /\ Len(reviews') > Len(reviews)
             => Len(feedback_log') = Len(feedback_log) + 1]_vars
====
